---- MODULE Spec2Model ----
(***************************************************************************)
(* A model of the sBayes cluster sampler initialisation and operator       *)
(* table:                                                                  *)
(*   - ClusterMCMC.grow_cluster_of_size_k      (sbayes_sampling.py)        *)
(*   - ClusterMCMC.generate_initial_clusters   (sbayes_sampling.py)        *)
(*   - ClusterMCMC.gibbsish_sample_clusters    (sbayes_sampling.py)        *)
(*   - ClusterMCMC.get_operators               (sbayes_sampling.py)        *)
(*   - Experiment.verify_config, operator part (experiment_setup.py)       *)
(* Boolean numpy vectors over the sites are modelled as sets of sites,     *)
(* a (n_clusters x n_sites) boolean matrix as a sequence of such sets.     *)
(* Python indices are kept 0-based for sites; matrix rows are 1-based      *)
(* sequences, row i of the code being element i+1.                         *)
(***************************************************************************)
EXTENDS Integers, Sequences, FiniteSets, TLC

VARIABLES
    pc,                 \* position of the modelled call
    n_sites,            \* self.n_sites
    adj_mat,            \* self.adj_mat, as a set of undirected edges {a, b}
    k,                  \* argument k of grow_cluster_of_size_k
    occupied,           \* the array passed as already_in_cluster (mutated in place)
    grow_ret,           \* outcome of the last grow_cluster_of_size_k call
    n_clusters,         \* self.n_clusters
    min_size,           \* self.min_size
    max_size,           \* self.max_size
    initial_size,       \* self.initial_size
    initial_sample,     \* self.initial_sample: None or the clusters of a prior sample
    initial_clusters,   \* local initial_clusters of generate_initial_clusters
    n_generated,        \* local n_generated
    not_initialized,    \* local not_initialized, a range <<start, stop>>
    i_loop,             \* next value the for loop takes from not_initialized
    attempts,           \* local attempts
    grow_called,        \* history: generate_initial_clusters has called grow
    sample,             \* clusters of the chain's current sample
    proposal,           \* what the last gibbsish_sample_clusters call did
    sample_source,      \* model.sample_source / config['model']['sample_source']
    confounders,        \* model.confounders (their names)
    config_file,        \* the operator weights as the config file gives them
    operators_config,   \* config['mcmc']['operators']
    operators,          \* the table returned by get_operators
    features,           \* data.features.values: the state observed per site and feature
    applicable_states,  \* data.features.states: the applicable states per feature
    groups,             \* data.confounders[conf]['values']: the sites of each group
    initial_weights,    \* what generate_initial_weights returned
    initial_cluster_effect,         \* what generate_initial_cluster_effect returned
    initial_confounding_effects,    \* local initial_confounding_effects
    IS_WARMUP,          \* the class attribute IS_WARMUP
    n_chains,           \* self.n_chains
    chain,              \* kwargs['c']: the chain a proposal is made for
    model_max_size,     \* model.max_size, the nominal maximum size
    heap,               \* the dictionaries of the configs, by object identity
    heap_before,        \* history: heap when the last call began
    config,             \* self.config, the identity of a dictionary
    custom_settings,    \* argument custom_settings of load_config
    exception,          \* the exception that ended the last call, with what it names
    experiments         \* the experiments made in this process so far

vars == <<pc, n_sites, adj_mat, k, occupied, grow_ret, n_clusters, min_size,
          max_size, initial_size, initial_sample, initial_clusters, n_generated,
          not_initialized, i_loop, attempts, grow_called, sample, proposal,
          sample_source, confounders, config_file, operators_config, operators,
          features, applicable_states, groups, initial_weights,
          initial_cluster_effect, initial_confounding_effects,
          IS_WARMUP, n_chains, chain, model_max_size,
          heap, heap_before, config, custom_settings, exception, experiments>>

growVars == <<pc, n_sites, adj_mat, k, occupied, grow_ret>>
initVars == <<n_clusters, min_size, max_size, initial_size, initial_sample,
              initial_clusters, n_generated, not_initialized, i_loop, attempts,
              grow_called>>
chainVars == <<sample, proposal>>
opVars == <<sample_source, confounders, config_file, operators_config, operators>>
dataVars == <<features, applicable_states, groups>>
effectVars == <<initial_weights, initial_cluster_effect, initial_confounding_effects>>
warmVars == <<IS_WARMUP, n_chains, chain, model_max_size>>
cfgVars == <<heap, heap_before, config, custom_settings, exception, experiments>>

(***************************************************************************)
(* Bounds of the model.                                                    *)
(***************************************************************************)
NSites == 5         \* sites of the graphs grow_cluster_of_size_k is applied to
MaxK == 3           \* largest target size k
GenerateSites == 4  \* sites of the models that are initialised
ChainSites == 3     \* sites of the chains that are initialised and then sampled
ProposeSites == 3   \* sites of the samples that are only sampled
MaxClusters == 2    \* largest n_clusters
MaxInitialSize == 2 \* largest initial_size
MaxSize == 3        \* largest max_size
MaxConfounders == 2 \* largest number of confounders
MaxWeight == 2      \* largest operator weight of a config file
SampleSites == 4    \* sites of the models of which the whole sample is initialised
NStates == 3        \* features.shape[2], the largest number of states of a feature
MaxExperiments == 2 \* experiments that load a config in one process
MaxChains == 5      \* largest n_chains of a warmup

max_attempts == 1000    \* "max_attempts = 1000" in generate_initial_clusters
MaxCandidates == 10     \* the cap on unoccupied candidates in gibbsish_sample_clusters

\* self.initial_sample: None, or a sample of which the clusters are modelled
None == [is_none |-> TRUE, clusters |-> <<>>]
PriorSample(rows) == [is_none |-> FALSE, clusters |-> rows]

Sites == 0 .. (n_sites - 1)
SitesOf(n) == 0 .. (n - 1)

(***************************************************************************)
(* Adjacency graphs: every sub-graph of the ring 0-1-...-(n-1)-0 (which    *)
(* holds the chain, the graph without edges and every split of the chain), *)
(* the star around site 0, and the complete graph.                         *)
(***************************************************************************)
ChainEdges(n) == {{i, i + 1} : i \in 0 .. (n - 2)}
RingEdges(n) == ChainEdges(n) \cup (IF n > 2 THEN {{0, n - 1}} ELSE {})
StarEdges(n) == {{0, i} : i \in 1 .. (n - 1)}
CompleteEdges(n) == {{i, j} : i, j \in SitesOf(n)} \ {{i} : i \in SitesOf(n)}
Graphs(n) == (SUBSET RingEdges(n)) \cup {StarEdges(n), CompleteEdges(n)}

Adjacent(adj, a, b) == {a, b} \in adj /\ a # b

\* sbayes.util.get_neighbours: the sites adjacent to the cluster that are in no cluster
get_neighbours(cluster, already_in_cluster, adj) ==
    {s \in Sites \ already_in_cluster : \E c \in cluster : Adjacent(adj, c, s)}

(***************************************************************************)
(* grow_cluster_of_size_k.  An outcome records whether ClusterError was    *)
(* raised, the order in which sites were added (the seed first), the       *)
(* cluster, and the caller's already_in_cluster array as the call leaves   *)
(* it (the array is written in place, also by a call that ends in          *)
(* ClusterError).                                                          *)
(***************************************************************************)
GrowOutcome(raised, order, already_in_cluster) ==
    [raised |-> raised,
     order |-> order,
     cluster |-> {order[j] : j \in 1 .. Len(order)},
     already_in_cluster |-> already_in_cluster]

\* Faulty variant of GrowSteps: the loop runs one iteration short.
GrowStepsShort(kk) == IF kk - 2 > 0 THEN kk - 2 ELSE 0

\* the number of iterations of "for _ in range(k - 1)"
GrowSteps(kk) == IF kk - 1 > 0 THEN kk - 1 ELSE 0

\* Faulty variant of Neighbours: the neighbours of every occupied site are taken.
NeighboursOfOccupied(cluster, already_in_cluster, adj) ==
    get_neighbours(already_in_cluster, already_in_cluster, adj)

\* "neighbours = get_neighbours(cluster, already_in_cluster, self.adj_mat)"
Neighbours(cluster, already_in_cluster, adj) ==
    get_neighbours(cluster, already_in_cluster, adj)

RECURSIVE GrowLoop(_, _, _, _)
GrowLoop(n, order, already_in_cluster, adj) ==
    IF n = 0
    THEN {GrowOutcome(FALSE, order, already_in_cluster)}
    ELSE LET cluster == {order[j] : j \in 1 .. Len(order)}
             neighbours == Neighbours(cluster, already_in_cluster, adj)
         IN  IF neighbours = {}
             THEN {GrowOutcome(TRUE, order, already_in_cluster)}
             ELSE UNION {GrowLoop(n - 1, Append(order, site_new),
                                  already_in_cluster \cup {site_new}, adj)
                         : site_new \in neighbours}

grow_cluster_of_size_k(kk, already_in_cluster, adj) ==
    LET sites_free == Sites \ already_in_cluster
    IN  IF sites_free = {}
        THEN {GrowOutcome(TRUE, <<>>, already_in_cluster)}
        ELSE UNION {GrowLoop(GrowSteps(kk), <<i>>, already_in_cluster \cup {i}, adj)
                    : i \in sites_free}

(***************************************************************************)
(* Values of the variables a specification does not use.                   *)
(***************************************************************************)
NoGrow == [excluded |-> {}, out |-> GrowOutcome(FALSE, <<>>, {})]
NoProposal == [called |-> FALSE]
NoOperators == <<>>

GrowIdle ==
    /\ k = 0
    /\ grow_ret = NoGrow

InitIdle ==
    /\ n_clusters = 0
    /\ min_size = 0
    /\ max_size = 0
    /\ initial_size = 0
    /\ initial_sample = None
    /\ initial_clusters = <<>>
    /\ n_generated = 0
    /\ not_initialized = <<0, 0>>
    /\ i_loop = 0
    /\ attempts = 0
    /\ grow_called = FALSE

ChainIdle ==
    /\ sample = <<>>
    /\ proposal = NoProposal

OpsIdle ==
    /\ sample_source = FALSE
    /\ confounders = {}
    /\ config_file = <<>>
    /\ operators_config = <<>>
    /\ operators = NoOperators

DataIdle ==
    /\ features = <<>>
    /\ applicable_states = <<>>
    /\ groups = <<>>

EffectIdle ==
    /\ initial_weights = <<>>
    /\ initial_cluster_effect = <<>>
    /\ initial_confounding_effects = <<>>

\* a sampler that is not a warmup sampler
NoWarmup ==
    /\ IS_WARMUP = FALSE
    /\ n_chains = 1
    /\ chain = 0
    /\ model_max_size = max_size

CfgIdle ==
    /\ heap = <<>>
    /\ heap_before = <<>>
    /\ config = <<>>
    /\ custom_settings = <<>>
    /\ exception = <<>>
    /\ experiments = 0

(***************************************************************************)
(* SpecGrow: one call of grow_cluster_of_size_k(k, already_in_cluster) on  *)
(* every graph of the family, every k and every set of occupied sites.     *)
(***************************************************************************)
InitGrow ==
    /\ pc = "grow_call"
    /\ n_sites = NSites
    /\ adj_mat \in Graphs(NSites)
    /\ k \in 1 .. MaxK
    /\ occupied \in SUBSET SitesOf(NSites)
    /\ grow_ret = NoGrow
    /\ InitIdle
    /\ ChainIdle
    /\ OpsIdle
    /\ DataIdle
    /\ EffectIdle
    /\ NoWarmup
    /\ CfgIdle

GrowCall ==
    /\ pc = "grow_call"
    /\ \E o \in grow_cluster_of_size_k(k, occupied, adj_mat) :
        /\ grow_ret' = [excluded |-> occupied, out |-> o]
        /\ occupied' = o.already_in_cluster
        /\ pc' = IF o.raised THEN "ClusterError" ELSE "grow_returned"
    /\ UNCHANGED <<n_sites, adj_mat, k>>
    /\ UNCHANGED <<initVars, chainVars, opVars>>
    /\ UNCHANGED <<dataVars, effectVars, warmVars, cfgVars>>

NextGrow == GrowCall

SpecGrow == InitGrow /\ [][NextGrow]_vars

(***************************************************************************)
(* generate_initial_clusters, one action per step of its control flow.     *)
(* The row index i of the code is row i + 1 of initial_clusters.           *)
(***************************************************************************)
UnionOfRows(rows) == UNION {rows[j] : j \in 1 .. Len(rows)}

\* Faulty variant of NoClustersInModel: the early return is missing.
NoEarlyReturn(n) == FALSE

\* "if self.n_clusters == 0: return np.zeros((self.n_clusters, self.n_sites), bool)"
NoClustersInModel(n) == n = 0

\* Faulty variant of RetryAllowed: a retry is allowed however many were made.
RetryAlways(a) == TRUE

\* "if attempts < max_attempts"
RetryAllowed(a) == a < max_attempts

\* Faulty variant of AttemptsAfterRetry: the retry is not counted.
AttemptsNotCounted(a) == a

\* "attempts += 1"
AttemptsAfterRetry(a) == a + 1

\* Faulty variant of RemainingClusters: every row is grown again after a failure.
AllClusters(generated, n) == <<0, n>>

\* "not_initialized = range(n_generated, self.n_clusters)"
RemainingClusters(generated, n) == <<generated, n>>

\* the clusters of the prior sample, None counting as no cluster
PriorClusters == IF initial_sample.is_none THEN <<>> ELSE initial_sample.clusters

GenerateBegin ==
    /\ pc = "init_start"
    /\ IF NoClustersInModel(n_clusters)
       THEN /\ initial_clusters' = <<>>
            /\ pc' = "init_returned"
            /\ UNCHANGED <<occupied, n_generated, not_initialized, i_loop, attempts>>
       ELSE LET m == Len(PriorClusters)
                copied == IF m < n_clusters THEN m ELSE n_clusters
            IN  /\ initial_clusters' =
                       [j \in 1 .. n_clusters |->
                           IF j <= copied THEN PriorClusters[j] ELSE {}]
                /\ occupied' = UNION {PriorClusters[j] : j \in 1 .. copied}
                /\ n_generated' = copied
                /\ IF m > n_clusters
                   THEN \* initial_clusters[i, :] with i = n_clusters is out of bounds
                        /\ pc' = "IndexError"
                        /\ UNCHANGED <<not_initialized, i_loop, attempts>>
                   ELSE /\ not_initialized' = RemainingClusters(copied, n_clusters)
                        /\ i_loop' = RemainingClusters(copied, n_clusters)[1]
                        /\ attempts' = 0
                        /\ pc' = "init_for"
    /\ UNCHANGED <<n_sites, adj_mat, k, grow_ret, n_clusters, min_size, max_size,
                   initial_size, initial_sample, grow_called>>
    /\ UNCHANGED <<chainVars, opVars>>
    /\ UNCHANGED <<dataVars, effectVars, warmVars, cfgVars>>

\* one iteration of "for i in not_initialized": the call of grow_cluster_of_size_k
\* and either the except branch or the three assignments after it
GenerateGrow ==
    /\ pc = "init_for"
    /\ i_loop < not_initialized[2]
    /\ \E o \in grow_cluster_of_size_k(initial_size, occupied, adj_mat) :
        /\ grow_called' = TRUE
        /\ occupied' = o.already_in_cluster
        /\ IF o.raised
           THEN IF RetryAllowed(attempts)
                THEN /\ attempts' = AttemptsAfterRetry(attempts)
                     /\ not_initialized' = RemainingClusters(n_generated, n_clusters)
                     /\ pc' = "init_while"
                     /\ UNCHANGED <<initial_clusters, n_generated, i_loop>>
                ELSE /\ pc' = "ValueError"
                     /\ UNCHANGED <<initial_clusters, n_generated, i_loop,
                                    attempts, not_initialized>>
           ELSE /\ n_generated' = n_generated + 1
                /\ initial_clusters' = [initial_clusters EXCEPT ![i_loop + 1] = o.cluster]
                /\ i_loop' = i_loop + 1
                /\ pc' = "init_for"
                /\ UNCHANGED <<attempts, not_initialized>>
    /\ UNCHANGED <<n_sites, adj_mat, k, grow_ret, n_clusters, min_size, max_size,
                   initial_size, initial_sample>>
    /\ UNCHANGED <<chainVars, opVars>>
    /\ UNCHANGED <<dataVars, effectVars, warmVars, cfgVars>>

\* the for loop has run through not_initialized
GenerateForDone ==
    /\ pc = "init_for"
    /\ i_loop >= not_initialized[2]
    /\ pc' = "init_while"
    /\ UNCHANGED <<n_sites, adj_mat, k, occupied, grow_ret>>
    /\ UNCHANGED <<initVars, chainVars, opVars>>
    /\ UNCHANGED <<dataVars, effectVars, warmVars, cfgVars>>

\* "if n_generated == self.n_clusters: return initial_clusters", else the next
\* round of "while True"
GenerateWhile ==
    /\ pc = "init_while"
    /\ IF n_generated = n_clusters
       THEN /\ pc' = "init_returned"
            /\ UNCHANGED i_loop
       ELSE /\ pc' = "init_for"
            /\ i_loop' = not_initialized[1]
    /\ UNCHANGED <<n_sites, adj_mat, k, occupied, grow_ret, n_clusters, min_size,
                   max_size, initial_size, initial_sample, initial_clusters,
                   n_generated, not_initialized, attempts, grow_called>>
    /\ UNCHANGED <<chainVars, opVars>>
    /\ UNCHANGED <<dataVars, effectVars, warmVars, cfgVars>>

\* prior samples: None, or the first m clusters of a previous run
PriorRows(n) == <<{0}, {1, 2}, {n - 1}>>
PriorSamples(n) ==
    {None} \cup {PriorSample(SubSeq(PriorRows(n), 1, m)) : m \in 0 .. 3}

\* the chain, the complete graph, the graph without edges, and a single edge
InitGraphs(n) == {ChainEdges(n), CompleteEdges(n), {}, {{n - 2, n - 1}}}

InitGenerate ==
    /\ pc = "init_start"
    /\ n_sites = GenerateSites
    /\ adj_mat \in InitGraphs(GenerateSites)
    /\ GrowIdle
    /\ occupied = {}
    /\ n_clusters \in 0 .. MaxClusters
    /\ max_size = MaxSize
    /\ min_size = 1
    /\ initial_size \in 1 .. MaxInitialSize
    /\ initial_sample \in PriorSamples(GenerateSites)
    /\ initial_clusters = <<>>
    /\ n_generated = 0
    /\ not_initialized = <<0, 0>>
    /\ i_loop = 0
    /\ attempts = 0
    /\ grow_called = FALSE
    /\ ChainIdle
    /\ OpsIdle
    /\ DataIdle
    /\ EffectIdle
    /\ NoWarmup
    /\ CfgIdle

NextGenerate ==
    \/ GenerateBegin
    \/ GenerateGrow
    \/ GenerateForDone
    \/ GenerateWhile

SpecGenerate == InitGenerate /\ [][NextGenerate]_vars

\* the loop of generate_initial_clusters is not suspended for ever
FairSpecGenerate == SpecGenerate /\ WF_vars(NextGenerate)

(***************************************************************************)
(* gibbsish_sample_clusters.  The likelihood is not modelled: the          *)
(* posterior inclusion probability of a candidate site,                    *)
(*   marginal_lh_with_z / (marginal_lh_with_z + marginal_lh_without_z),    *)
(* is any of: exactly 0, strictly between 0 and 1, exactly 1, or nan (both *)
(* marginal likelihoods 0).                                                *)
(***************************************************************************)
Posteriors == {"zero", "mid", "one", "nan"}

\* "max_size = self.max_size[kwargs['c']] if self.IS_WARMUP else self.max_size";
\* element c of the list is element c + 1 of the sequence
ChainMaxSize == IF IS_WARMUP THEN max_size[chain + 1] ELSE max_size

\* k-element subsets, "np.random.choice(n, k, replace=False)"
random_subset(S, n) == {T \in SUBSET S : Cardinality(T) = n}

\* Faulty variant of AvailableSets: the unoccupied sites are never subsampled.
AvailableNotCapped(clusters, i_cluster, maxsize) ==
    {(Sites \ UnionOfRows(clusters)) \cup clusters[i_cluster]}

\* the candidate sets `available` the code can end up with for cluster i_cluster
AvailableSets(clusters, i_cluster, maxsize) ==
    LET occ == UnionOfRows(clusters)
        cluster == clusters[i_cluster]
        available == (Sites \ occ) \cup cluster
        newly_available == Sites \ occ
    IN  IF Cardinality(available) > maxsize /\ Cardinality(newly_available) > MaxCandidates
        THEN {(available \ newly_available) \cup T
              : T \in random_subset(newly_available, MaxCandidates)}
        ELSE {available}

\* Faulty variant of Draws: sites that are no candidates are drawn as well.
DrawsFromAllSites(available, posterior_cluster) == SUBSET Sites

\* "np.random.random(n_available) < posterior_cluster": the sets of candidates
\* that can be drawn into the cluster (a comparison with nan is False)
Draws(available, posterior_cluster) ==
    {d \in SUBSET available :
        \A s \in available :
            /\ posterior_cluster[s] = "one" => s \in d
            /\ posterior_cluster[s] \in {"zero", "nan"} => s \notin d}

\* "q_back_per_site == 0" for one site:
\*   posterior * cluster + (1 - posterior) * (1 - cluster)
QBackIsZero(posterior, in_cluster) ==
    \/ posterior = "zero" /\ in_cluster
    \/ posterior = "one" /\ ~in_cluster

\* Faulty variant of SizeInRange: the lower bound is not checked.
SizeBelowMax(size, lo, hi) == size <= hi

\* "self.min_size <= new_cluster_size <= max_size"
SizeInRange(size, lo, hi) == lo <= size /\ size <= hi

\* Sample.copy: the copy shares nothing that update_cluster writes
copy(smp) == smp

\* Sample.update_cluster(i_cluster, new_cluster) on the copy
update_cluster(smp, i_cluster, new_cluster) == [smp EXCEPT ![i_cluster] = new_cluster]

\* what a call leaves behind: the locals n_available, new_cluster_size and
\* np.any(q_back_per_site == 0), whether the object returned is the input
\* sample, and the two proposal probabilities returned
Rejected(n_available, new_cluster_size, q_back_zero) ==
    [called |-> TRUE, n_available |-> n_available,
     new_cluster_size |-> new_cluster_size, q_back_zero |-> q_back_zero,
     returned_input |-> TRUE, q |-> "Q_REJECT", q_back |-> "Q_BACK_REJECT"]

Proposed(n_available, new_cluster_size, q_back_zero) ==
    [called |-> TRUE, n_available |-> n_available,
     new_cluster_size |-> new_cluster_size, q_back_zero |-> q_back_zero,
     returned_input |-> FALSE, q |-> "log_q", q_back |-> "log_q_back"]

\* generate_initial_sample: the initial clusters become the chain's sample
StartChain ==
    /\ pc = "init_returned"
    /\ sample' = initial_clusters
    /\ pc' = "running"
    /\ UNCHANGED proposal
    /\ UNCHANGED <<n_sites, adj_mat, k, occupied, grow_ret>>
    /\ UNCHANGED <<initVars, opVars>>
    /\ UNCHANGED <<dataVars, effectVars, warmVars, cfgVars>>

\* the values posterior_cluster can take: any of the four cases for every
\* candidate, or one of them shared by all candidates
PosteriorClusters(available, shared) ==
    IF shared THEN {[s \in available |-> p] : p \in Posteriors}
    ELSE [available -> Posteriors]

\* what a call leaves behind, with the chosen cluster, the candidates and the
\* proposed cluster of the call when these locals are kept
Locals(outcome, kept, i_cluster, cluster, available, new_cluster) ==
    IF kept
    THEN [called |-> outcome.called, n_available |-> outcome.n_available,
          new_cluster_size |-> outcome.new_cluster_size,
          q_back_zero |-> outcome.q_back_zero,
          returned_input |-> outcome.returned_input,
          q |-> outcome.q, q_back |-> outcome.q_back,
          i_cluster |-> i_cluster, cluster |-> cluster,
          available |-> available, new_cluster |-> new_cluster]
    ELSE outcome

\* one call of gibbsish_sample_clusters on the chain's sample; the sample it
\* returns is the chain's next sample
gibbsish_sample_clusters(shared_posterior, locals_kept) ==
    /\ pc = "running"
    /\ IF Len(sample) = 0
       THEN \* np.random.choice(range(0)) raises ValueError
            /\ pc' = "ChoiceValueError"
            /\ UNCHANGED <<sample, proposal>>
       ELSE \E i_cluster \in 1 .. Len(sample) :
            \E available \in AvailableSets(sample, i_cluster, ChainMaxSize) :
                LET cluster == sample[i_cluster]
                    n_available == Cardinality(available)
                IN  IF n_available = 0
                    THEN /\ proposal' = Locals(Rejected(n_available, Cardinality(cluster),
                                                         FALSE),
                                                locals_kept, i_cluster, cluster,
                                                available, cluster)
                         /\ UNCHANGED <<pc, sample>>
                    ELSE \E posterior_cluster \in
                                PosteriorClusters(available, shared_posterior) :
                         \E drawn \in Draws(available, posterior_cluster) :
                            LET new_cluster == (cluster \ available) \cup drawn
                                new_cluster_size == Cardinality(new_cluster)
                                q_back_zero ==
                                    \E s \in available :
                                        QBackIsZero(posterior_cluster[s], s \in cluster)
                            IN  IF ~SizeInRange(new_cluster_size, min_size, ChainMaxSize)
                                THEN /\ proposal' = Locals(Rejected(n_available,
                                                                    new_cluster_size,
                                                                    q_back_zero),
                                                           locals_kept, i_cluster, cluster,
                                                           available, new_cluster)
                                     /\ UNCHANGED <<pc, sample>>
                                ELSE IF q_back_zero
                                THEN /\ proposal' = Locals(Rejected(n_available,
                                                                    new_cluster_size,
                                                                    q_back_zero),
                                                           locals_kept, i_cluster, cluster,
                                                           available, new_cluster)
                                     /\ UNCHANGED <<pc, sample>>
                                ELSE /\ proposal' = Locals(Proposed(n_available,
                                                                    new_cluster_size,
                                                                    q_back_zero),
                                                           locals_kept, i_cluster, cluster,
                                                           available, new_cluster)
                                     /\ sample' = update_cluster(copy(sample), i_cluster,
                                                                 new_cluster)
                                     /\ UNCHANGED pc
    /\ UNCHANGED <<n_sites, adj_mat, k, occupied, grow_ret>>
    /\ UNCHANGED <<initVars, opVars>>
    /\ UNCHANGED <<dataVars, effectVars, warmVars, cfgVars>>

Propose == gibbsish_sample_clusters(FALSE, FALSE)

(***************************************************************************)
(* SpecChain: a chain is initialised and then sampled.                     *)
(***************************************************************************)
InitChain ==
    /\ pc = "init_start"
    /\ n_sites = ChainSites
    /\ adj_mat \in {ChainEdges(ChainSites), {}}
    /\ GrowIdle
    /\ occupied = {}
    /\ n_clusters \in 0 .. MaxClusters
    /\ max_size \in 1 .. MaxSize
    /\ min_size \in 0 .. max_size
    /\ initial_size \in 1 .. MaxInitialSize
    \* a prior sample comes from a run with the same size limits
    /\ initial_sample \in
            {p \in PriorSamples(ChainSites) :
                \A j \in 1 .. Len(p.clusters) :
                    SizeInRange(Cardinality(p.clusters[j]), min_size, max_size)}
    /\ initial_clusters = <<>>
    /\ n_generated = 0
    /\ not_initialized = <<0, 0>>
    /\ i_loop = 0
    /\ attempts = 0
    /\ grow_called = FALSE
    /\ ChainIdle
    /\ OpsIdle
    /\ DataIdle
    /\ EffectIdle
    /\ NoWarmup
    /\ CfgIdle

NextChain ==
    \/ GenerateBegin
    \/ GenerateGrow
    \/ GenerateForDone
    \/ GenerateWhile
    \/ StartChain
    \/ Propose

SpecChain == InitChain /\ [][NextChain]_vars

(***************************************************************************)
(* SpecScratch: a chain is initialised from scratch and then sampled.  The *)
(* candidates of a call share one posterior; a posterior strictly between  *)
(* 0 and 1 lets every subset of the candidates be drawn, so the samples    *)
(* reached are those reached with a posterior of its own for every site.   *)
(***************************************************************************)
InitScratch ==
    /\ pc = "init_start"
    /\ n_sites = ChainSites
    /\ adj_mat \in {ChainEdges(ChainSites), CompleteEdges(ChainSites)}
    /\ GrowIdle
    /\ occupied = {}
    /\ n_clusters \in 1 .. MaxClusters
    /\ max_size = ChainSites
    /\ min_size \in 0 .. 1
    /\ initial_size \in 1 .. MaxInitialSize
    /\ initial_sample = None
    /\ initial_clusters = <<>>
    /\ n_generated = 0
    /\ not_initialized = <<0, 0>>
    /\ i_loop = 0
    /\ attempts = 0
    /\ grow_called = FALSE
    /\ ChainIdle
    /\ OpsIdle
    /\ DataIdle
    /\ EffectIdle
    /\ NoWarmup
    /\ CfgIdle

ProposeShared == gibbsish_sample_clusters(TRUE, FALSE)

NextScratch ==
    \/ GenerateBegin
    \/ GenerateGrow
    \/ GenerateForDone
    \/ GenerateWhile
    \/ StartChain
    \/ ProposeShared

SpecScratch == InitScratch /\ [][NextScratch]_vars

(***************************************************************************)
(* SpecPropose: gibbsish_sample_clusters applied to every sample of         *)
(* pairwise disjoint clusters, under every pair of size limits.            *)
(***************************************************************************)
DisjointSamples(n, S) ==
    {c \in [1 .. n -> SUBSET S] :
        \A a, b \in 1 .. n : a # b => c[a] \cap c[b] = {}}

InitPropose ==
    /\ pc = "running"
    /\ n_sites = ProposeSites
    /\ adj_mat = {}
    /\ GrowIdle
    /\ occupied = {}
    /\ n_clusters \in 1 .. MaxClusters
    /\ max_size \in 1 .. MaxSize
    /\ min_size \in 0 .. max_size
    /\ initial_size = 0
    /\ initial_sample = None
    /\ initial_clusters = <<>>
    /\ n_generated = 0
    /\ not_initialized = <<0, 0>>
    /\ i_loop = 0
    /\ attempts = 0
    /\ grow_called = FALSE
    /\ sample \in DisjointSamples(n_clusters, SitesOf(ProposeSites))
    /\ proposal = NoProposal
    /\ OpsIdle
    /\ DataIdle
    /\ EffectIdle
    /\ NoWarmup
    /\ CfgIdle

\* the call on the sample drawn at the start
ProposeOnInput ==
    /\ ~proposal.called
    /\ Propose

NextPropose == ProposeOnInput

SpecPropose == InitPropose /\ [][NextPropose]_vars

(***************************************************************************)
(* SpecCap: gibbsish_sample_clusters on samples with 10 and with more than *)
(* 10 unoccupied sites, under a max_size below and a max_size not below    *)
(* the number of available sites.  The candidates of a call share one      *)
(* posterior; the chosen cluster, the candidates and the proposed cluster  *)
(* of the call are kept.                                                   *)
(***************************************************************************)
CapSites == 12

\* two clusters that leave all but two sites or all but one site unoccupied
CapSamples == {<<{0}, {1}>>, <<{}, {0}>>}

InitCap ==
    /\ pc = "running"
    /\ n_sites = CapSites
    /\ adj_mat = {}
    /\ GrowIdle
    /\ occupied = {}
    /\ n_clusters = 2
    /\ max_size \in {1, MaxCandidates, CapSites}
    /\ min_size = 0
    /\ initial_size = 0
    /\ initial_sample = None
    /\ initial_clusters = <<>>
    /\ n_generated = 0
    /\ not_initialized = <<0, 0>>
    /\ i_loop = 0
    /\ attempts = 0
    /\ grow_called = FALSE
    /\ sample \in CapSamples
    /\ proposal = NoProposal
    /\ OpsIdle
    /\ DataIdle
    /\ EffectIdle
    /\ NoWarmup
    /\ CfgIdle

\* the call on the sample drawn at the start
ProposeCapped ==
    /\ ~proposal.called
    /\ gibbsish_sample_clusters(TRUE, TRUE)

NextCap == ProposeCapped

SpecCap == InitCap /\ [][NextCap]_vars

(***************************************************************************)
(* ClusterMCMCWarmup: every chain has its own max_size.                    *)
(***************************************************************************)
\* "k_groups=4"
k_groups == 4

\* sbayes.util.get_max_size_list: k_groups values staged from start towards
\* end (end not included), each shared by a group of ceil(n_total / k_groups)
\* consecutive chains
get_max_size_list(start, end, n_total, groups_) ==
    LET n_per_group == (n_total + groups_ - 1) \div groups_
    IN  [j \in 1 .. n_total |->
            start + ((((j - 1) \div n_per_group) * (end - start)) \div groups_)]

\* ClusterMCMCWarmup.__init__: self.max_size becomes the list of the chains
WarmupInit ==
    /\ pc = "warmup_init"
    /\ max_size' = get_max_size_list((initial_size + max_size) \div 2,
                                     (3 * max_size) \div 2,
                                     n_chains, k_groups)
    /\ pc' = "running"
    /\ UNCHANGED <<n_sites, adj_mat, k, occupied, grow_ret>>
    /\ UNCHANGED <<n_clusters, min_size, initial_size, initial_sample,
                   initial_clusters, n_generated, not_initialized, i_loop,
                   attempts, grow_called>>
    /\ UNCHANGED <<chainVars, opVars, dataVars, effectVars, warmVars, cfgVars>>

\* SpecWarmup: a warmup sampler is made and one of its chains makes a proposal
InitWarmup ==
    /\ pc = "warmup_init"
    /\ n_sites = ProposeSites
    /\ adj_mat = {}
    /\ GrowIdle
    /\ occupied = {}
    /\ n_clusters = 1
    /\ max_size \in 1 .. MaxSize
    /\ min_size \in 0 .. 1
    /\ initial_size \in 1 .. MaxInitialSize
    /\ initial_sample = None
    /\ initial_clusters = <<>>
    /\ n_generated = 0
    /\ not_initialized = <<0, 0>>
    /\ i_loop = 0
    /\ attempts = 0
    /\ grow_called = FALSE
    /\ sample \in DisjointSamples(n_clusters, SitesOf(ProposeSites))
    /\ proposal = NoProposal
    /\ OpsIdle
    /\ DataIdle
    /\ EffectIdle
    /\ IS_WARMUP = TRUE
    /\ n_chains \in 1 .. MaxChains
    /\ chain \in 0 .. (n_chains - 1)
    /\ model_max_size = max_size
    /\ CfgIdle

NextWarmup ==
    \/ WarmupInit
    \/ ProposeOnInput

SpecWarmup == InitWarmup /\ [][NextWarmup]_vars

(***************************************************************************)
(* Operator weights are rationals <<numerator, denominator>> in lowest     *)
(* terms with a positive denominator, so that sums and quotients are exact.*)
(***************************************************************************)
RECURSIVE GCD(_, _)
GCD(a, b) == IF b = 0 THEN a ELSE GCD(b, a % b)

Abs(a) == IF a < 0 THEN -a ELSE a

Rat(n, d) ==
    LET g == GCD(Abs(n), Abs(d))
        sgn == IF d < 0 THEN -1 ELSE 1
    IN  <<(sgn * n) \div g, (sgn * d) \div g>>

Zero == Rat(0, 1)
One == Rat(1, 1)
RAdd(x, y) == Rat(x[1] * y[2] + y[1] * x[2], x[2] * y[2])
RMul(x, y) == Rat(x[1] * y[1], x[2] * y[2])
\* only applied to y # Zero
RDiv(x, y) == Rat(x[1] * y[2], x[2] * y[1])

\* sum(f.values()) of a table of rationals
RECURSIVE RSumOver(_, _)
RSumOver(f, keys) ==
    IF keys = {} THEN Zero
    ELSE LET key == CHOOSE x \in keys : TRUE
         IN  RAdd(f[key], RSumOver(f, keys \ {key}))

RSum(f) == RSumOver(f, DOMAIN f)

(***************************************************************************)
(* Experiment.verify_config, the part on the operator weights, and         *)
(* ClusterMCMC.get_operators with normalize_operator_weights.              *)
(***************************************************************************)
OperatorKeys == {"clusters", "weights", "cluster_effect", "confounding_effects", "source"}

\* Faulty variant of SourceWeightWhenDisabled: the configured weight is kept.
SourceWeightKept(w) == w

\* "self.config['mcmc']['operators']['source'] = 0.0"
SourceWeightWhenDisabled(w) == Zero

\* Faulty variant of ConfounderShare: the weight is not split.
ConfounderShareWhole(n) == One

\* "r = float(1 / len(self.model.confounders))", for n > 0
ConfounderShare(n) == Rat(1, n)

verify_config ==
    /\ pc = "config_loaded"
    /\ LET zeroed == IF ~sample_source
                     THEN [operators_config EXCEPT
                              !["source"] = SourceWeightWhenDisabled(@)]
                     ELSE operators_config
           weights_sum == RSum(zeroed)
       IN  IF weights_sum = Zero
           THEN \* weight / weights_sum
                /\ operators_config' = zeroed
                /\ pc' = "ZeroDivisionError"
           ELSE /\ operators_config' =
                       [operator \in DOMAIN zeroed |-> RDiv(zeroed[operator], weights_sum)]
                /\ pc' = "config_verified"
    /\ UNCHANGED <<n_sites, adj_mat, k, occupied, grow_ret>>
    /\ UNCHANGED <<initVars, chainVars>>
    /\ UNCHANGED <<sample_source, confounders, config_file, operators>>
    /\ UNCHANGED <<dataVars, effectVars, warmVars, cfgVars>>

\* an entry of the operator table: the operator's class, its weight, and for
\* AlterCluster its resample_source argument
Operator(class, weight, resample_source) ==
    [class |-> class, weight |-> weight, resample_source |-> resample_source]

\* the table before normalize_operator_weights; keys are <<name, confounder>>,
\* the confounder being 0 for an operator that belongs to none
OperatorTable(r) ==
    LET cfg == operators_config
        common == (<<"sample_cluster", 0>> :>
                      Operator("AlterCluster", cfg["clusters"], sample_source))
        per_confounder(name, class) ==
            [key \in {<<name, c>> : c \in confounders} |->
                Operator(class, RMul(r, cfg["confounding_effects"]), FALSE)]
    IN  IF sample_source
        THEN common
             @@ (<<"gibbs_sample_sources", 0>> :>
                    Operator("GibbsSampleSource", cfg["source"], FALSE))
             @@ (<<"gibbs_sample_weights", 0>> :>
                    Operator("GibbsSampleWeights", cfg["weights"], FALSE))
             @@ (<<"gibbs_sample_cluster_effect", 0>> :>
                    Operator("GibbsSampleClusterEffect", cfg["cluster_effect"], FALSE))
             @@ per_confounder("gibbs_sample_confounding_effects_",
                               "GibbsSampleConfoundingEffects")
        ELSE common
             @@ (<<"alter_weights", 0>> :>
                    Operator("AlterWeights", cfg["weights"], FALSE))
             @@ (<<"alter_cluster_effect", 0>> :>
                    Operator("AlterClusterEffect", cfg["cluster_effect"], FALSE))
             @@ per_confounder("alter_confounding_effects_", "AlterConfoundingEffects")

OperatorWeights(table) == [key \in DOMAIN table |-> table[key].weight]

\* normalize_operator_weights, for total # 0
normalize_operator_weights(table) ==
    LET total == RSum(OperatorWeights(table))
    IN  [key \in DOMAIN table |->
            [table[key] EXCEPT !.weight = RDiv(@, total)]]

get_operators ==
    /\ pc = "config_verified"
    /\ IF confounders = {}
       THEN \* 1 / len(self.model.confounders)
            /\ pc' = "ZeroDivisionError"
            /\ UNCHANGED operators
       ELSE LET table == OperatorTable(ConfounderShare(Cardinality(confounders)))
            IN  IF RSum(OperatorWeights(table)) = Zero
                THEN \* op['weight'] /= total
                     /\ pc' = "ZeroDivisionError"
                     /\ UNCHANGED operators
                ELSE /\ operators' = normalize_operator_weights(table)
                     /\ pc' = "operators_built"
    /\ UNCHANGED <<n_sites, adj_mat, k, occupied, grow_ret>>
    /\ UNCHANGED <<initVars, chainVars>>
    /\ UNCHANGED <<sample_source, confounders, config_file, operators_config>>
    /\ UNCHANGED <<dataVars, effectVars, warmVars, cfgVars>>

(***************************************************************************)
(* SpecOperators: a config is verified and the operator table is built.    *)
(***************************************************************************)
InitOperators ==
    /\ pc = "config_loaded"
    /\ n_sites = 0
    /\ adj_mat = {}
    /\ GrowIdle
    /\ occupied = {}
    /\ n_clusters \in 0 .. MaxClusters
    /\ min_size = 0
    /\ max_size = 0
    /\ initial_size = 0
    /\ initial_sample = None
    /\ initial_clusters = <<>>
    /\ n_generated = 0
    /\ not_initialized = <<0, 0>>
    /\ i_loop = 0
    /\ attempts = 0
    /\ grow_called = FALSE
    /\ ChainIdle
    /\ sample_source \in BOOLEAN
    /\ \E n \in 0 .. MaxConfounders : confounders = 1 .. n
    /\ \E w \in [OperatorKeys -> 0 .. MaxWeight] :
        /\ config_file = [key \in OperatorKeys |-> Rat(w[key], 1)]
        /\ operators_config = config_file
    /\ operators = NoOperators
    /\ DataIdle
    /\ EffectIdle
    /\ NoWarmup
    /\ CfgIdle

NextOperators ==
    \/ verify_config
    \/ get_operators

SpecOperators == InitOperators /\ [][NextOperators]_vars

(***************************************************************************)
(* generate_initial_sample: after the clusters, the weights, the cluster   *)
(* effect and the confounding effects.  features[site][f] is the one-hot   *)
(* row of the site for feature f (f = 1 .. n_features), as the set of      *)
(* states that are 1: one state, or none where the value is missing.  An   *)
(* effect is [cluster or group][feature][state], a weight [feature][source]*)
(* with source 0 the cluster effect and source i the i-th confounder.      *)
(***************************************************************************)
States == 1 .. NStates
n_features == Len(applicable_states)
Features == 1 .. n_features
\* "self.n_sources = 1 + len(self.confounders)"
n_sources == 1 + Cardinality(confounders)
Sources == 0 .. (n_sources - 1)
\* "self.n_groups = self.get_groups_per_confounder()"
n_groups(conf) == Len(groups[conf])

\* 0 / 0 of numpy
NaN == <<0, 0>>
Quotient(n, d) == IF d = 0 THEN NaN ELSE Rat(n, d)
QDiv(x, y) ==
    IF x = NaN \/ y = NaN \/ y[1] = 0 THEN NaN ELSE RDiv(x, y)

\* a prior sample with everything generate_initial_sample reads of it
FullSample(rows, weights, cluster_effect, confounding_effects) ==
    [is_none |-> FALSE, clusters |-> rows, weights |-> weights,
     cluster_effect |-> cluster_effect,
     confounding_effects |-> confounding_effects]

\* sbayes.util.normalize: every row is divided by its sum
normalize(x) ==
    [f \in DOMAIN x |-> [j \in DOMAIN x[f] |-> QDiv(x[f][j], RSum(x[f]))]]

\* Faulty variant of UsePrior: the values of the prior sample are never used.
IgnorePrior(prior) == FALSE

\* "if self.initial_sample is not None"
UsePrior(prior) == ~prior.is_none

generate_initial_weights ==
    LET from_prior == initial_sample.weights
        from_scratch == [f \in Features |-> [j \in Sources |-> One]]
    IN  normalize(IF UsePrior(initial_sample) THEN from_prior ELSE from_scratch)

\* "sites_per_state = np.nansum(features_cluster, axis=0)" for one feature
sites_per_state(idx, f) ==
    [s \in States |-> Cardinality({site \in idx : s \in features[site][f]})]

\* Faulty variant of SmoothedCounts: the plain counts, as for the MLE.
CountsNotSmoothed(counts, applicable) == counts

\* "sites_per_state[self.applicable_states] += 1"
SmoothedCounts(counts, applicable) ==
    [s \in DOMAIN counts |-> IF s \in applicable THEN counts[s] + 1 ELSE counts[s]]

RECURSIVE SumOver(_, _)
SumOver(f, keys) ==
    IF keys = {} THEN 0
    ELSE LET key == CHOOSE x \in keys : TRUE
         IN  f[key] + SumOver(f, keys \ {key})

\* the effect of the sites idx: "sites_per_state / site_sums[:, np.newaxis]"
EffectOfSites(idx) ==
    [f \in Features |->
        LET counts == SmoothedCounts(sites_per_state(idx, f), applicable_states[f])
            site_sums == SumOver(counts, DOMAIN counts)
        IN  [s \in States |-> Quotient(counts[s], site_sums)]]

\* "np.zeros((self.n_features, self.features.shape[2]))", one row of an effect
ZeroEffect == [f \in Features |-> [s \in States |-> Zero]]

generate_initial_cluster_effect(clusters) ==
    LET n_prior == IF UsePrior(initial_sample)
                   THEN Len(initial_sample.cluster_effect) ELSE 0
    IN  [i \in 1 .. n_clusters |->
            IF i <= n_prior
            THEN initial_sample.cluster_effect[i]
            ELSE EffectOfSites(clusters[i])]

generate_initial_confounding_effect(conf) ==
    IF UsePrior(initial_sample)
    THEN LET prior == initial_sample.confounding_effects[conf]
         IN  [g \in 1 .. n_groups(conf) |->
                 IF g <= Len(prior) THEN prior[g] ELSE ZeroEffect]
    ELSE [g \in 1 .. n_groups(conf) |-> EffectOfSites(groups[conf][g])]

\* "assert ~np.any(np.isnan(initial_weights))"
HasNaN(weights) ==
    \E f \in DOMAIN weights : \E j \in DOMAIN weights[f] : weights[f][j] = NaN

\* "initial_cluster_effect[i, :] = ..." for a row i the array does not have
PriorEffectOutOfBounds ==
    /\ UsePrior(initial_sample)
    /\ Len(initial_sample.cluster_effect) > n_clusters

\* generate_initial_sample after generate_initial_clusters has returned
generate_initial_sample ==
    /\ pc = "init_returned"
    /\ initial_weights' = generate_initial_weights
    /\ initial_cluster_effect' = generate_initial_cluster_effect(initial_clusters)
    /\ initial_confounding_effects' =
            [conf \in confounders |-> generate_initial_confounding_effect(conf)]
    /\ IF PriorEffectOutOfBounds
       THEN /\ pc' = "IndexError"
            /\ UNCHANGED sample
       ELSE IF HasNaN(initial_weights')
       THEN /\ pc' = "AssertionError"
            /\ UNCHANGED sample
       ELSE /\ pc' = "sample_initialized"
            /\ sample' = initial_clusters
    /\ UNCHANGED proposal
    /\ UNCHANGED <<n_sites, adj_mat, k, occupied, grow_ret>>
    /\ UNCHANGED <<initVars, opVars, dataVars, warmVars, cfgVars>>

(***************************************************************************)
(* SpecSample: the whole initial sample is generated, from scratch or from *)
(* the last sample of a previous run on the same data.                     *)
(***************************************************************************)
\* two features: the applicable states of each
ApplicableStates == {<<{1, 2}, {1, 2, 3}>>, <<{1}, {1, 2}>>}

Last(S) == CHOOSE x \in S : \A y \in S : y <= x
First(S) == CHOOSE x \in S : \A y \in S : x <= y

\* the rows of a site: nothing observed, the first state of every feature, or
\* the last state of every feature
SiteRows(applicable) ==
    {[f \in DOMAIN applicable |-> {}],
     [f \in DOMAIN applicable |-> {First(applicable[f])}],
     [f \in DOMAIN applicable |-> {Last(applicable[f])}]}

\* the groups of a confounder: a group may be empty
GroupsOfSites(n) == {<<{0}, SitesOf(n) \ {0}>>, <<{}, SitesOf(n)>>}

\* values of a sample of a previous run: skewed weights that sum to 1 per
\* feature, and effects with all the mass on the first applicable state
PriorWeights(applicable, sources) ==
    [f \in DOMAIN applicable |->
        [j \in sources |-> Rat(2 * j + 1, Cardinality(sources) * Cardinality(sources))]]
PriorEffect(applicable) ==
    [f \in DOMAIN applicable |->
        [s \in States |-> IF s = First(applicable[f]) THEN One ELSE Zero]]

InitSample ==
    /\ pc = "init_start"
    /\ n_sites = SampleSites
    /\ adj_mat = CompleteEdges(SampleSites)
    /\ GrowIdle
    /\ occupied = {}
    \* at most two clusters of at most two sites, so that every growth succeeds
    /\ n_clusters \in 0 .. 2
    /\ max_size = 2
    /\ min_size = 1
    /\ initial_size \in 1 .. 2
    /\ applicable_states \in ApplicableStates
    /\ features \in [SitesOf(SampleSites) -> SiteRows(applicable_states)]
    /\ \E n \in 0 .. 1 : confounders = 1 .. n
    /\ groups \in [confounders -> GroupsOfSites(SampleSites)]
    /\ \E m \in {n_clusters - 1, n_clusters, n_clusters + 1} :
        /\ m >= 0
        /\ initial_sample \in
            {None,
             FullSample(SubSeq(PriorRows(SampleSites), 1, m),
                        PriorWeights(applicable_states, 0 .. Cardinality(confounders)),
                        [i \in 1 .. m |-> PriorEffect(applicable_states)],
                        [conf \in confounders |->
                            [g \in 1 .. Len(groups[conf]) |->
                                PriorEffect(applicable_states)]])}
    /\ initial_clusters = <<>>
    /\ n_generated = 0
    /\ not_initialized = <<0, 0>>
    /\ i_loop = 0
    /\ attempts = 0
    /\ grow_called = FALSE
    /\ ChainIdle
    /\ sample_source = FALSE
    /\ config_file = <<>>
    /\ operators_config = <<>>
    /\ operators = NoOperators
    /\ EffectIdle
    /\ NoWarmup
    /\ CfgIdle

NextSample ==
    \/ GenerateBegin
    \/ GenerateGrow
    \/ GenerateForDone
    \/ GenerateWhile
    \/ generate_initial_sample

SpecSample == InitSample /\ [][NextSample]_vars

(***************************************************************************)
(* Config dictionaries.  A Python dictionary is an object: heap maps the   *)
(* identity of every dictionary to its items, a function from keys to      *)
(* values.  A value is a leaf (a string or a number) or the identity of a  *)
(* nested dictionary, so that two dictionaries can hold the same nested    *)
(* dictionary.  Identities are key paths below the name of a root.         *)
(***************************************************************************)
LeafStr(x) == [is_dict |-> FALSE, ref |-> <<>>, str |-> x, num |-> Zero]
LeafNum(q) == [is_dict |-> FALSE, ref |-> <<>>, str |-> "", num |-> q]
DictValue(id) == [is_dict |-> TRUE, ref |-> id, str |-> "", num |-> Zero]

\* "REQUIRED = '<REQUIRED>'"
REQUIRED == LeafStr("<REQUIRED>")

\* a dictionary literal, before it is an object: nested dictionaries by value
Nested(items) == [is_dict |-> TRUE, items |-> items]
NoItems == <<>>

RECURSIVE ObjectsBelow(_, _, _)
RECURSIVE Objects(_, _)
\* the objects of the dictionaries nested in items under the given keys
ObjectsBelow(items, id, keys) ==
    IF keys = {} THEN <<>>
    ELSE LET key == CHOOSE x \in keys : TRUE
             rest == ObjectsBelow(items, id, keys \ {key})
         IN  IF items[key].is_dict
             THEN Objects(items[key].items, Append(id, key)) @@ rest
             ELSE rest

\* json.load / json.loads: every dictionary of the text becomes a new object
Objects(items, id) ==
    (id :> [key \in DOMAIN items |->
                IF items[key].is_dict THEN DictValue(Append(id, key)) ELSE items[key]])
    @@ ObjectsBelow(items, id, DOMAIN items)

\* "isinstance(d[key], dict)" for a key of the dictionary d
IsDictAt(h, d, key) == key \in DOMAIN h[d] /\ h[d][key].is_dict

\* "d[key] = value"
SetItem(h, d, key, value) ==
    [h EXCEPT ![d] = [x \in DOMAIN h[d] \cup {key} |->
                         IF x = key THEN value ELSE h[d][x]]]

\* Faulty variant of KeyMissing: the default is stored under every key.
KeyAlwaysMissing(h, cfg, key) == TRUE

\* "key not in cfg"
KeyMissing(h, cfg, key) == key \notin DOMAIN h[cfg]

RECURSIVE set_defaults_from(_, _, _, _)
\* the rest of "for key in default_cfg" of set_defaults(cfg, default_cfg)
set_defaults_from(h, cfg, default_cfg, keys) ==
    IF keys = {} THEN h
    ELSE LET key == CHOOSE x \in keys : TRUE
             done ==
                IF KeyMissing(h, cfg, key)
                THEN SetItem(h, cfg, key, h[default_cfg][key])
                ELSE IF h[default_cfg][key].is_dict /\ h[cfg][key].is_dict
                THEN set_defaults_from(h, h[cfg][key].ref, h[default_cfg][key].ref,
                                       DOMAIN h[h[default_cfg][key].ref])
                ELSE h
         IN  set_defaults_from(done, cfg, default_cfg, keys \ {key})

set_defaults(h, cfg, default_cfg) ==
    set_defaults_from(h, cfg, default_cfg, DOMAIN h[default_cfg])

\* Faulty variant of BothDicts: the value of new_cfg is always stored whole.
NeverBothDicts(h, cfg, new_cfg, key) == FALSE

\* "(key in cfg) and isinstance(new_cfg[key], dict) and isinstance(cfg[key], dict)"
BothDicts(h, cfg, new_cfg, key) ==
    key \in DOMAIN h[cfg] /\ h[new_cfg][key].is_dict /\ h[cfg][key].is_dict

RECURSIVE update_recursive_from(_, _, _, _)
\* the rest of "for key in new_cfg" of update_recursive(cfg, new_cfg)
update_recursive_from(h, cfg, new_cfg, keys) ==
    IF keys = {} THEN h
    ELSE LET key == CHOOSE x \in keys : TRUE
             done ==
                IF BothDicts(h, cfg, new_cfg, key)
                THEN update_recursive_from(h, h[cfg][key].ref, h[new_cfg][key].ref,
                                           DOMAIN h[h[new_cfg][key].ref])
                ELSE SetItem(h, cfg, key, h[new_cfg][key])
         IN  update_recursive_from(done, cfg, new_cfg, keys \ {key})

update_recursive(h, cfg, new_cfg) ==
    update_recursive_from(h, cfg, new_cfg, DOMAIN h[new_cfg])

RECURSIVE iter_items_recursive(_, _, _)
\* the (key, value, loc) that iter_items_recursive(cfg, loc) yields
iter_items_recursive(h, cfg, loc) ==
    UNION {IF h[cfg][key].is_dict
           THEN iter_items_recursive(h, h[cfg][key].ref, Append(loc, key))
           ELSE {<<key, h[cfg][key], loc>>}
           : key \in DOMAIN h[cfg]}

(***************************************************************************)
(* Experiment.verify_config and verify_priors on a config dictionary.  A   *)
(* step yields the heap it leaves and the exception it raises, <<>> for    *)
(* none or <<type, key path named by the message>>.                        *)
(***************************************************************************)
Returns(h) == [h |-> h, exception |-> <<>>]
Raises(h, type, names) == [h |-> h, exception |-> <<type, names>>]
Then(outcome, next(_)) ==
    IF outcome.exception # <<>> THEN outcome ELSE next(outcome.h)

PyFalse == LeafNum(Zero)
PyTrue == LeafNum(One)
\* "not value" for a leaf: the empty string, 0 and False
Falsy(value) == ~value.is_dict /\ value.str = "" /\ value.num = Zero

\* fix_relative_path: a relative path is put below the directory of the config
\* file, an absolute path is kept
fix_relative_path(path) ==
    CASE path = LeafStr("features.csv") -> LeafStr("/base/features.csv")
      [] path = LeafStr("feature_states.csv") -> LeafStr("/base/feature_states.csv")
      [] OTHER -> path

\* "d[key]" for reading: KeyError when the key is missing
HasKey(h, d, key) == key \in DOMAIN h[d]

\* "self.config['data'][field]" is checked and made absolute
verify_data_field(h, cfg, field) ==
    LET data == h[cfg]["data"].ref
    IN  IF ~HasKey(h, data, field) THEN Raises(h, "KeyError", <<field>>)
        ELSE IF Falsy(h[data][field]) THEN Raises(h, "NameError", <<field>>)
        ELSE Returns(SetItem(h, data, field, fix_relative_path(h[data][field])))

required_priors ==
    <<"objects_per_cluster", "geo", "weights", "areal_effect", "confounding_effects">>

\* "if 'type' not in prior: raise NameError(...)"
verify_prior_type(h, prior, key) ==
    IF ~HasKey(h, prior, "type")
    THEN Raises(h, "NameError", <<key, "type">>)
    ELSE Returns(h)

\* the branch "if key == "geo"" of verify_priors
verify_geo_prior(h, prior) ==
    LET typed == verify_prior_type(h, prior, "geo")
        type == h[prior]["type"]
        gaussian(hh) ==
            IF type = LeafStr("gaussian") /\ ~HasKey(hh, prior, "covariance")
            THEN Raises(hh, "NameError", <<"geo", "covariance">>)
            ELSE Returns(hh)
        cost_based(hh) ==
            IF type # LeafStr("cost_based") THEN Returns(hh)
            ELSE IF ~HasKey(hh, prior, "rate")
            THEN Raises(hh, "NameError", <<"geo", "rate">>)
            ELSE LET linked == IF HasKey(hh, prior, "linkage") THEN hh
                               ELSE SetItem(hh, prior, "linkage", LeafStr("mst"))
                     costed == IF HasKey(linked, prior, "costs") THEN linked
                               ELSE SetItem(linked, prior, "costs", LeafStr("from_data"))
                 IN  IF costed[prior]["costs"] = LeafStr("from_data")
                     THEN Returns(costed)
                     ELSE IF ~HasKey(costed, prior, "file")
                     THEN Raises(costed, "KeyError", <<"file">>)
                     \* fix_relative_path(prior['file']) lacks base_directory
                     ELSE Raises(costed, "TypeError", <<"fix_relative_path">>)
    IN  Then(Then(typed, gaussian), cost_based)

\* the branch "if key == "confounding_effects"" of verify_priors; the groups of
\* a confounder are the keys of a dictionary
verify_confounding_priors(h, cfg) ==
    LET model == h[cfg]["model"].ref
        confs == h[model]["confounding_effects"].ref
        priors == h[h[model]["prior"].ref]["confounding_effects"].ref
        no_prior == {cf \in DOMAIN h[confs] : ~HasKey(h, priors, cf)}
        no_group == {pair \in {<<cf, g>> : cf \in DOMAIN h[confs] \ no_prior,
                                           g \in UNION {DOMAIN h[h[confs][x].ref]
                                                        : x \in DOMAIN h[confs]}} :
                        /\ pair[2] \in DOMAIN h[h[confs][pair[1]].ref]
                        /\ \/ ~HasKey(h, h[priors][pair[1]].ref, pair[2])
                           \/ ~HasKey(h, h[h[priors][pair[1]].ref][pair[2]].ref, "type")}
    IN  IF ~HasKey(h, model, "confounding_effects")
        THEN {Raises(h, "KeyError", <<"confounding_effects">>)}
        ELSE IF no_prior # {}
        THEN {Raises(h, "NameError", <<cf>>) : cf \in no_prior}
        ELSE IF no_group # {}
        THEN {Raises(h, "NameError", <<pair[2]>>) : pair \in no_group}
        ELSE {Returns(h)}

RECURSIVE verify_priors_from(_, _, _, _)
\* "for key in required_priors" from the i-th key on
verify_priors_from(h, cfg, priors_cfg, i) ==
    IF i > Len(required_priors) THEN {Returns(h)}
    ELSE LET key == required_priors[i]
         IN  IF ~HasKey(h, priors_cfg, key)
             \* "NameError(...)" is built and dropped, not raised; then
             \* "prior = priors_cfg[key]"
             THEN {Raises(h, "KeyError", <<key>>)}
             ELSE LET prior == h[priors_cfg][key].ref
                      checked ==
                        IF key \in {"objects_per_cluster", "weights", "areal_effect"}
                        THEN {verify_prior_type(h, prior, key)}
                        ELSE IF key = "geo"
                        THEN {verify_geo_prior(h, prior)}
                        ELSE verify_confounding_priors(h, cfg)
                  IN  UNION {IF o.exception # <<>> THEN {o}
                             ELSE verify_priors_from(o.h, cfg, priors_cfg, i + 1)
                             : o \in checked}

verify_priors(h, cfg, priors_cfg) == verify_priors_from(h, cfg, priors_cfg, 1)

\* "for key, value, loc in iter_items_recursive(self.config): if value == REQUIRED"
RequiredLeft(h, cfg) ==
    {item \in iter_items_recursive(h, cfg, <<>>) : item[2] = REQUIRED}

\* the checks on 'data' of verify_config
verify_data(h, cfg) ==
    IF ~HasKey(h, cfg, "data") THEN Raises(h, "NameError", <<"data">>)
    ELSE LET states(hh) == verify_data_field(hh, cfg, "feature_states")
         IN  Then(verify_data_field(h, cfg, "features"), states)

\* "self.verify_priors(self.config['model']['prior'])"
verify_model(h, cfg) ==
    IF ~HasKey(h, cfg, "model") THEN {Raises(h, "KeyError", <<"model">>)}
    ELSE IF ~HasKey(h, h[cfg]["model"].ref, "prior")
    THEN {Raises(h, "KeyError", <<"prior">>)}
    ELSE verify_priors(h, cfg, h[h[cfg]["model"].ref]["prior"].ref)

\* the sum of the values of a dictionary of numbers
SumOfValues(h, d) == RSum([key \in DOMAIN h[d] |-> h[d][key].num])

\* the checks on 'mcmc' of verify_config, the source weight and the
\* re-normalisation of the operator weights
verify_mcmc(h, cfg) ==
    \* "NameError(f'mcmc is not defined ...')" is built and dropped, not raised;
    \* then "self.config['mcmc']['steps']"
    IF ~HasKey(h, cfg, "mcmc") THEN Raises(h, "KeyError", <<"mcmc">>)
    ELSE LET mcmc == h[cfg]["mcmc"].ref
             model == h[cfg]["model"].ref
         IN  IF ~HasKey(h, mcmc, "steps") THEN Raises(h, "KeyError", <<"steps">>)
             ELSE IF ~HasKey(h, mcmc, "samples") THEN Raises(h, "KeyError", <<"samples">>)
             ELSE IF h[mcmc]["samples"].num = Zero
             THEN Raises(h, "ZeroDivisionError", <<"samples">>)
             ELSE IF h[mcmc]["steps"].num[1] % h[mcmc]["samples"].num[1] # 0
             THEN Raises(h, "ValueError", <<"steps">>)
             ELSE IF ~HasKey(h, model, "sample_source")
             THEN Raises(h, "KeyError", <<"sample_source">>)
             ELSE IF ~HasKey(h, mcmc, "operators")
             THEN Raises(h, "KeyError", <<"operators">>)
             ELSE LET ops == h[mcmc]["operators"].ref
                      zeroed ==
                        IF Falsy(h[model]["sample_source"])
                        THEN SetItem(h, ops, "source",
                                     LeafNum(SourceWeightWhenDisabled(
                                        IF HasKey(h, ops, "source")
                                        THEN h[ops]["source"].num ELSE Zero)))
                        ELSE h
                      weights_sum == SumOfValues(zeroed, ops)
                  IN  IF weights_sum = Zero
                      THEN Raises(zeroed, "ZeroDivisionError", <<"operators">>)
                      ELSE Returns([zeroed EXCEPT ![ops] =
                                [operator \in DOMAIN zeroed[ops] |->
                                    LeafNum(RDiv(zeroed[ops][operator].num,
                                                 weights_sum))]])

\* Experiment.verify_config on the dictionary cfg
verify_config_of(h, cfg) ==
    IF RequiredLeft(h, cfg) # {}
    THEN {Raises(h, "NameError", Append(item[3], item[1])) : item \in RequiredLeft(h, cfg)}
    ELSE LET data == verify_data(h, cfg)
         IN  IF data.exception # <<>> THEN {data}
             ELSE {IF o.exception # <<>> THEN o ELSE verify_mcmc(o.h, cfg)
                   : o \in verify_model(data.h, cfg)}

(***************************************************************************)
(* Experiment.load_config.  DEFAULT_CONFIG is the dictionary made from     *)
(* default_config.json when the module is imported; the objects below      *)
(* "default_config.json" keep the text of that file for comparison.        *)
(***************************************************************************)
DEFAULT_CONFIG == <<"DEFAULT_CONFIG">>
DefaultText == <<"default_config.json">>
SelfConfig == <<"config">>
CustomSettings == <<"custom_settings">>

Num(n) == LeafNum(Rat(n, 1))
Typed(type) == Nested("type" :> LeafStr(type))
Only(present, key, value) == IF present THEN key :> value ELSE NoItems

\* the operator weights of a config
OperatorItems(w, source) ==
    [key \in OperatorKeys |-> IF key = "source" THEN Num(source) ELSE Num(w)]

\* default_config.json: every section, the fields a user must give marked
\* '<REQUIRED>'; the file is not part of the sources, so defaults without an
\* 'mcmc' section and without the 'geo' prior are taken as well
DefaultItems(with_mcmc, with_geo) ==
    ("data" :> Nested(("features" :> REQUIRED) @@ ("feature_states" :> REQUIRED)))
    @@ ("model" :> Nested(
            ("sample_source" :> PyTrue)
            @@ ("confounding_effects" :> Nested(NoItems))
            @@ ("prior" :> Nested(
                    ("objects_per_cluster" :> Nested("type" :> REQUIRED))
                    @@ Only(with_geo, "geo", Nested("type" :> REQUIRED))
                    @@ ("weights" :> Nested("type" :> REQUIRED))
                    @@ ("areal_effect" :> Nested("type" :> REQUIRED))
                    @@ ("confounding_effects" :> Nested(NoItems))))))
    @@ Only(with_mcmc, "mcmc", Nested(
            ("steps" :> Num(4)) @@ ("samples" :> Num(2))
            @@ ("operators" :> Nested(OperatorItems(1, 1)))))
    @@ ("results" :> Nested("path" :> LeafStr("results")))

DefaultConfigs ==
    {DefaultItems(TRUE, TRUE), DefaultItems(FALSE, TRUE), DefaultItems(TRUE, FALSE)}

\* the config files of users: the data section is complete, has an empty
\* 'features' or is missing; the 'geo' prior has a type, has none or is
\* missing; the 'mcmc' section is missing, has no operators or has operators
\* that sum to 0 without the source; 'sample_source' is missing or false
ConfigFile(data, geo, mcmc, source_off) ==
    Only(data # "none", "data", Nested(
            ("features" :> LeafStr(IF data = "full" THEN "features.csv" ELSE ""))
            @@ ("feature_states" :> LeafStr("feature_states.csv"))))
    @@ ("model" :> Nested(
            Only(source_off, "sample_source", PyFalse)
            @@ ("prior" :> Nested(
                    ("objects_per_cluster" :> Typed("uniform"))
                    @@ Only(geo # "none", "geo",
                            IF geo = "typed" THEN Typed("uniform") ELSE Nested(NoItems))
                    @@ ("weights" :> Typed("uniform"))
                    @@ ("areal_effect" :> Typed("uniform"))))))
    @@ Only(mcmc # "none", "mcmc", Nested(
            ("steps" :> Num(6)) @@ ("samples" :> Num(3))
            @@ Only(mcmc = "operators", "operators", Nested(OperatorItems(0, 2)))))

ConfigFiles ==
    {ConfigFile(data, geo, mcmc, source_off) :
        data \in {"full", "empty", "none"}, geo \in {"typed", "untyped", "none"},
        mcmc \in {"none", "plain", "operators"}, source_off \in BOOLEAN}

\* custom_settings: a number of steps, or a weight for the source operator
CustomItems ==
    {"mcmc" :> Nested("steps" :> Num(8)),
     "mcmc" :> Nested("operators" :> Nested("source" :> Num(3)))}

\* the dictionaries that are not below the given root
Without(h, root) == [id \in {x \in DOMAIN h : x[1] # root[1]} |-> h[id]]

\* load_config up to the call of verify_config: the file is read, the
\* defaults are set and the custom settings are applied
load_config_merge ==
    /\ pc = "load_start"
    /\ LET read == Objects(config_file, SelfConfig) @@ Without(heap, SelfConfig)
           defaulted == set_defaults(read, SelfConfig, DEFAULT_CONFIG)
           updated == IF custom_settings # <<>>
                      THEN update_recursive(defaulted, SelfConfig, custom_settings)
                      ELSE defaulted
       IN  /\ heap' = updated
           /\ heap_before' = updated
    /\ config' = SelfConfig
    /\ exception' = <<>>
    /\ pc' = "load_merged"
    /\ UNCHANGED <<custom_settings, experiments>>
    /\ UNCHANGED <<n_sites, adj_mat, k, occupied, grow_ret>>
    /\ UNCHANGED <<initVars, chainVars, opVars, dataVars, effectVars, warmVars>>

\* load_config from the call of verify_config on
load_config_verify ==
    /\ pc = "load_merged"
    /\ \E o \in verify_config_of(heap, config) :
        /\ heap' = o.h
        /\ IF o.exception # <<>>
           THEN /\ exception' = o.exception
                /\ pc' = "load_raised"
           ELSE IF ~HasKey(o.h, config, "results")
           THEN \* self.config['results']['path']
                /\ exception' = <<"KeyError", <<"results">>>>
                /\ pc' = "load_raised"
           ELSE /\ exception' = <<>>
                /\ pc' = "load_returned"
    /\ UNCHANGED <<heap_before, config, custom_settings, experiments>>
    /\ UNCHANGED <<n_sites, adj_mat, k, occupied, grow_ret>>
    /\ UNCHANGED <<initVars, chainVars, opVars, dataVars, effectVars, warmVars>>

\* Experiment.__init__ of the next experiment of the process, with the same
\* config file and custom settings
NextExperiment ==
    /\ pc \in {"load_returned", "load_raised"}
    /\ experiments < MaxExperiments
    /\ experiments' = experiments + 1
    /\ config' = <<>>
    /\ exception' = <<>>
    /\ pc' = "load_start"
    /\ UNCHANGED <<heap, heap_before, custom_settings>>
    /\ UNCHANGED <<n_sites, adj_mat, k, occupied, grow_ret>>
    /\ UNCHANGED <<initVars, chainVars, opVars, dataVars, effectVars, warmVars>>

InitLoad ==
    /\ pc = "load_start"
    /\ n_sites = 0
    /\ adj_mat = {}
    /\ GrowIdle
    /\ occupied = {}
    /\ InitIdle
    /\ ChainIdle
    /\ sample_source = FALSE
    /\ confounders = {}
    /\ config_file \in ConfigFiles
    /\ operators_config = <<>>
    /\ operators = NoOperators
    /\ DataIdle
    /\ EffectIdle
    /\ NoWarmup
    /\ \E default \in DefaultConfigs :
       \E custom \in CustomItems \cup {NoItems} :
            /\ custom_settings = IF custom = NoItems THEN <<>> ELSE CustomSettings
            /\ heap = Objects(default, DEFAULT_CONFIG)
                      @@ Objects(default, DefaultText)
                      @@ (IF custom = NoItems THEN <<>>
                          ELSE Objects(custom, CustomSettings))
    /\ heap_before = heap
    /\ config = <<>>
    /\ exception = <<>>
    /\ experiments = 1

NextLoad ==
    \/ load_config_merge
    \/ load_config_verify
    \/ NextExperiment

SpecLoad == InitLoad /\ [][NextLoad]_vars

(***************************************************************************)
(* SpecDicts: set_defaults(cfg, default_cfg) and update_recursive(cfg,     *)
(* new_cfg), each called twice in a row, on every pair of dictionaries     *)
(* with the keys DictKeys, the leaves DictLeaves and one level of nesting. *)
(* The second dictionary is default_cfg for set_defaults and new_cfg for   *)
(* update_recursive; heap_before keeps the dictionaries as they were       *)
(* before the first call.                                                  *)
(***************************************************************************)
DictKeys == {"1", "2"}
DictLeaves == {LeafStr("0"), LeafStr("1")}

\* the dictionaries over the given keys whose values are drawn from values
DictsOf(values) ==
    UNION {[keys -> values] : keys \in SUBSET DictKeys}

FlatDicts == DictsOf(DictLeaves)
NestedDicts == DictsOf(DictLeaves \cup {Nested(items) : items \in FlatDicts})

OtherConfig == <<"other">>

set_defaults_call ==
    /\ pc \in {"dicts", "defaults_set"}
    /\ heap' = set_defaults(heap, config, OtherConfig)
    /\ pc' = IF pc = "dicts" THEN "defaults_set" ELSE "defaults_set_again"
    /\ UNCHANGED <<heap_before, config, custom_settings, exception, experiments>>
    /\ UNCHANGED <<n_sites, adj_mat, k, occupied, grow_ret>>
    /\ UNCHANGED <<initVars, chainVars, opVars, dataVars, effectVars, warmVars>>

update_recursive_call ==
    /\ pc \in {"dicts", "updated"}
    /\ heap' = update_recursive(heap, config, OtherConfig)
    /\ pc' = IF pc = "dicts" THEN "updated" ELSE "updated_again"
    /\ UNCHANGED <<heap_before, config, custom_settings, exception, experiments>>
    /\ UNCHANGED <<n_sites, adj_mat, k, occupied, grow_ret>>
    /\ UNCHANGED <<initVars, chainVars, opVars, dataVars, effectVars, warmVars>>

InitDicts ==
    /\ pc = "dicts"
    /\ n_sites = 0
    /\ adj_mat = {}
    /\ GrowIdle
    /\ occupied = {}
    /\ InitIdle
    /\ ChainIdle
    /\ sample_source = FALSE
    /\ confounders = {}
    /\ config_file = <<>>
    /\ operators_config = <<>>
    /\ operators = NoOperators
    /\ DataIdle
    /\ EffectIdle
    /\ NoWarmup
    /\ \E cfg \in NestedDicts, other \in NestedDicts :
            heap = Objects(cfg, SelfConfig) @@ Objects(other, OtherConfig)
    /\ heap_before = heap
    /\ config = SelfConfig
    /\ custom_settings = <<>>
    /\ exception = <<>>
    /\ experiments = 0

NextDicts ==
    \/ set_defaults_call
    \/ update_recursive_call

SpecDicts == InitDicts /\ [][NextDicts]_vars

(***************************************************************************)
(* Graph notions the claims about grow_cluster_of_size_k are stated with.  *)
(***************************************************************************)
\* the sites of `allowed` reachable from `from` along edges inside `allowed`
RECURSIVE Reach(_, _, _)
Reach(adj, from, allowed) ==
    LET more == {s \in allowed \ from : \E c \in from : Adjacent(adj, c, s)}
    IN  IF more = {} THEN from ELSE Reach(adj, from \cup more, allowed)

Connected(adj, cluster) ==
    \A s \in cluster : Reach(adj, {s}, cluster) = cluster

GrowDone == pc \in {"grow_returned", "ClusterError"}
GrowSeeded == grow_ret.out.order # <<>>
GrowSeed == grow_ret.out.order[1]

\* the free sites the seed can reach through free sites
FreeRegionOfSeed == Reach(adj_mat, {GrowSeed}, Sites \ grow_ret.excluded)

\* C1: grow_cluster_of_size_k(k, excluded) either returns a cluster of exactly k
\* sites, none of them excluded before the call, or raises ClusterError; it
\* raises exactly when there is no free site to seed from or the cluster under
\* construction (still smaller than k) has no free neighbour, which is the case
\* exactly when the free region around the seed holds fewer than k sites.
C1_GrowContract ==
    GrowDone =>
        LET o == grow_ret.out
            excluded == grow_ret.excluded
        IN  /\ pc = "grow_returned" <=> ~o.raised
            /\ ~o.raised =>
                    /\ Cardinality(o.cluster) = k
                    /\ o.cluster \subseteq Sites \ excluded
                    /\ Cardinality(FreeRegionOfSeed) >= k
            /\ o.raised =>
                    /\ Cardinality(o.cluster) < k
                    /\ \/ Sites \ excluded = {} /\ o.cluster = {}
                       \/ /\ GrowSeeded
                          /\ get_neighbours(o.cluster, excluded \cup o.cluster, adj_mat) = {}
                          /\ o.cluster = FreeRegionOfSeed
            /\ Sites \ excluded = {} => o.raised

\* C1 witness: a cluster of size 3 was returned although some sites were occupied.
C1_WitnessReturned ==
    /\ pc = "grow_returned"
    /\ k = 3
    /\ grow_ret.excluded # {}
    /\ Cardinality(grow_ret.out.cluster) = 3

\* C2: a returned cluster contains its seed, every site added after the seed is
\* adjacent to a site added before it, and the cluster is connected; on the
\* chain 0-1-2-3-4 a cluster of size 3 seeded at site 2 is one of {0,1,2},
\* {1,2,3}, {2,3,4}.
C2_GrowConnected ==
    pc = "grow_returned" =>
        LET o == grow_ret.out
        IN  /\ GrowSeeded
            /\ GrowSeed \in o.cluster
            /\ \A j \in 2 .. Len(o.order) :
                    \E h \in 1 .. (j - 1) : Adjacent(adj_mat, o.order[h], o.order[j])
            /\ Connected(adj_mat, o.cluster)
            /\ (adj_mat = ChainEdges(n_sites) /\ k = 3 /\ GrowSeed = 2 /\ n_sites >= 5)
                   => o.cluster \in {{0, 1, 2}, {1, 2, 3}, {2, 3, 4}}

\* C2 witness: on the 5-site chain a cluster of size 3 was grown from seed 2.
C2_WitnessChain ==
    /\ pc = "grow_returned"
    /\ n_sites = 5
    /\ adj_mat = ChainEdges(5)
    /\ grow_ret.excluded = {}
    /\ k = 3
    /\ GrowSeeded
    /\ GrowSeed = 2
    /\ grow_ret.out.cluster = {2, 3, 4}


(***************************************************************************)
(* Claims about generate_initial_clusters.                                 *)
(***************************************************************************)
GenerateDone == pc \in {"init_returned", "ValueError", "IndexError"}

PriorCount == Len(PriorClusters)

\* C4: generate_initial_clusters terminates; a failed growth is retried, at most
\* max_attempts = 1000 retries are made over the whole initialisation, the
\* failure after the last retry raises ValueError, and a return has all
\* n_clusters clusters placed.
C4_GenerateTerminates ==
    /\ <>GenerateDone
    /\ [](attempts <= max_attempts)
    /\ [](pc = "ValueError" =>
            attempts = max_attempts /\ grow_called /\ n_generated < n_clusters)
    /\ [](pc = "IndexError" => PriorCount > n_clusters)
    /\ [](pc = "init_returned" =>
            /\ n_generated = n_clusters
            /\ Len(initial_clusters) = n_clusters
            /\ \A j \in 1 .. n_clusters : initial_clusters[j] # {})
    /\ [][attempts' # attempts =>
            attempts' = attempts + 1 /\ pc = "init_for" /\ pc' = "init_while"]_vars

\* C4 witness: the 1000 retries were used up and the next failure was fatal.
C4_WitnessFatal ==
    /\ pc = "ValueError"
    /\ attempts = max_attempts

\* C9: generate_initial_clusters returns n_clusters rows over the n_sites sites;
\* with n_clusters = 0 it returns the empty matrix at once: it grows nothing and
\* raises nothing, with or without a prior sample.
C9_InitialClustersShape ==
    /\ pc = "init_returned" =>
            /\ Len(initial_clusters) = n_clusters
            /\ \A j \in 1 .. Len(initial_clusters) : initial_clusters[j] \subseteq Sites
    /\ (n_clusters = 0 /\ pc # "init_start") =>
            /\ pc = "init_returned"
            /\ initial_clusters = <<>>
            /\ ~grow_called
            /\ attempts = 0

\* C9 witness: no clusters in the model, a prior sample with clusters, returned.
C9_WitnessNoClusters ==
    /\ pc = "init_returned"
    /\ n_clusters = 0
    /\ PriorCount > 0

C3_ClusterSizesInRange ==
    pc = "running" =>
        \A j \in 1 .. Len(sample) :
            /\ min_size <= Cardinality(sample[j])
            /\ Cardinality(sample[j]) <= max_size

ProposalSizeOutOfRange(p) ==
    p.new_cluster_size < min_size \/ p.new_cluster_size > max_size

ProposalMustReject(p) ==
    \/ p.n_available = 0
    \/ ProposalSizeOutOfRange(p)
    \/ p.q_back_zero

\* C5: a call of gibbsish_sample_clusters returns the input sample, clusters
\* unchanged, with Q_REJECT and Q_BACK_REJECT whenever there is no candidate
\* site, the proposed size is outside [min_size, max_size] or a backward
\* probability is zero; otherwise it returns the new sample with the two
\* proposal probabilities, and it changes the clusters in no other case.
C5_RejectReturnsInput ==
    [][(pc = "running" /\ pc' = "running") =>
        LET p == proposal'
        IN  /\ p.called
            /\ ProposalMustReject(p) =>
                    /\ sample' = sample
                    /\ p.returned_input
                    /\ p.q = "Q_REJECT"
                    /\ p.q_back = "Q_BACK_REJECT"
            /\ ~ProposalMustReject(p) =>
                    /\ ~p.returned_input
                    /\ p.q # "Q_REJECT"
                    /\ p.q_back # "Q_BACK_REJECT"
                    /\ \E j \in 1 .. Len(sample) :
                            /\ Cardinality(sample'[j]) = p.new_cluster_size
                            /\ \A h \in (1 .. Len(sample)) \ {j} : sample'[h] = sample[h]
            /\ sample' # sample => ~ProposalMustReject(p)]_vars

\* C5 witness: a proposal of a valid size was rejected for a zero backward
\* probability.
C5_WitnessRejected ==
    /\ proposal.called
    /\ proposal.q = "Q_REJECT"
    /\ proposal.q_back_zero
    /\ proposal.n_available > 0
    /\ ~ProposalSizeOutOfRange(proposal)

(***************************************************************************)
(* Claims about generate_initial_sample.                                   *)
(***************************************************************************)
SampleInitialized == pc = "sample_initialized"

\* the chain is resumed from a sample with all n_clusters clusters
ResumedInFull ==
    /\ ~initial_sample.is_none
    /\ Len(initial_sample.clusters) = n_clusters

\* C11: initialised from a previous run's sample with the same number of
\* clusters and of groups per confounder, the initial sample has that sample's
\* clusters, weights, cluster effect and confounding effects: nothing is
\* grown, no attempt is counted, and no step of the initialisation changes
\* the prior sample.
C11_RoundTrip ==
    /\ []((SampleInitialized /\ ResumedInFull) =>
            /\ sample = initial_sample.clusters
            /\ initial_clusters = initial_sample.clusters
            /\ initial_weights = initial_sample.weights
            /\ initial_cluster_effect = initial_sample.cluster_effect
            /\ initial_confounding_effects = initial_sample.confounding_effects
            /\ ~grow_called
            /\ attempts = 0)
    /\ [][initial_sample' = initial_sample]_vars

\* C11 witness: resumed from a sample with two clusters and a confounder, of
\* which the weights are not uniform and the cluster effect is degenerate.
C11_WitnessResumed ==
    /\ SampleInitialized
    /\ ResumedInFull
    /\ n_clusters = 2
    /\ confounders # {}
    /\ initial_weights[1][0] # initial_weights[1][1]
    /\ initial_cluster_effect[1][1][1] = One
    /\ Cardinality(applicable_states[1]) = 2

\* the Laplace-smoothed estimate of the sites idx for feature f and state s
LaplaceEstimate(idx, f, s) ==
    LET observed == {site \in idx : features[site][f] # {}}
        in_state == {site \in idx : s \in features[site][f]}
    IN  IF s \in applicable_states[f]
        THEN Rat(Cardinality(in_state) + 1,
                 Cardinality(observed) + Cardinality(applicable_states[f]))
        ELSE Zero

IsLaplaceSmoothed(effect, idx) ==
    \A f \in Features :
        /\ \A s \in States : effect[f][s] = LaplaceEstimate(idx, f, s)
        /\ RSum(effect[f]) = One
        /\ Cardinality(applicable_states[f]) >= 2 =>
                \A s \in applicable_states[f] :
                    effect[f][s] # Zero /\ effect[f][s] # One

\* the clusters that are not taken from the prior sample
FreshClusters == (PriorCount + 1) .. n_clusters

\* C12: the effect of every cluster that is not taken from a prior sample,
\* and without a prior sample of every group of every confounder, is for
\* every feature (count of the state + 1) / (observations + number of
\* applicable states) on the applicable states and 0 elsewhere; it sums to
\* 1, and with two or more applicable states none of them has 0 or 1.
C12_LaplaceSmoothed ==
    SampleInitialized =>
        /\ \A i \in FreshClusters :
                IsLaplaceSmoothed(initial_cluster_effect[i], sample[i])
        /\ initial_sample.is_none =>
                \A conf \in confounders : \A g \in 1 .. n_groups(conf) :
                    IsLaplaceSmoothed(initial_confounding_effects[conf][g],
                                      groups[conf][g])

\* C12 witness: a fresh cluster of two sites with one observed state for
\* the first feature, and a group without sites.
C12_WitnessOneState ==
    /\ SampleInitialized
    /\ initial_sample.is_none
    /\ n_clusters = 2
    /\ Cardinality(sample[2]) = 2
    /\ \A site \in sample[2] : features[site][1] = {1}
    /\ Cardinality(applicable_states[1]) = 2
    /\ \E conf \in confounders : groups[conf][1] = {}

(***************************************************************************)
(* Claims about the operator table.                                        *)
(***************************************************************************)
OperatorsBuilt == pc = "operators_built"

\* the operator names of the configuration: sample_cluster, then the Gibbs
\* operators when the source is sampled and the alter operators when not
RelevantOperators ==
    {<<"sample_cluster", 0>>}
    \cup (IF sample_source
          THEN {<<"gibbs_sample_sources", 0>>, <<"gibbs_sample_weights", 0>>,
                <<"gibbs_sample_cluster_effect", 0>>}
               \cup {<<"gibbs_sample_confounding_effects_", c>> : c \in confounders}
          ELSE {<<"alter_weights", 0>>, <<"alter_cluster_effect", 0>>}
               \cup {<<"alter_confounding_effects_", c>> : c \in confounders})

\* C6: the weights of the operators get_operators returns sum to 1, the
\* operators are the ones of the configuration, each confounder's operator has
\* 1/n of the confounding-effects weight, and the verified config sums to 1.
C6_OperatorWeightsSumToOne ==
    OperatorsBuilt =>
        /\ RSum(OperatorWeights(operators)) = One
        /\ DOMAIN operators = RelevantOperators
        /\ RSum(operators_config) = One
        /\ operators[<<"sample_cluster", 0>>].weight = operators_config["clusters"]
        /\ \A key \in DOMAIN operators :
                key[2] # 0 =>
                    RMul(Rat(Cardinality(confounders), 1), operators[key].weight)
                        = operators_config["confounding_effects"]

\* C6 witness: a table for two confounders with a positive confounding-effects
\* weight, the source being sampled.
C6_WitnessTwoConfounders ==
    /\ OperatorsBuilt
    /\ sample_source
    /\ Cardinality(confounders) = 2
    /\ operators_config["confounding_effects"] # Zero
    /\ operators_config["source"] # Zero

SourceDependent(op) ==
    \/ op.class \in {"GibbsSampleSource", "GibbsSampleWeights",
                     "GibbsSampleClusterEffect", "GibbsSampleConfoundingEffects"}
    \/ op.class = "AlterCluster" /\ op.resample_source

\* C7: with sample_source disabled the verified weight of 'source' is 0, the
\* other weights are the configured ones divided by their sum, and the
\* operator table holds no operator that depends on the source.
C7_NoSourceOperators ==
    (~sample_source /\ pc \in {"config_verified", "operators_built"}) =>
        /\ operators_config["source"] = Zero
        /\ RSum(operators_config) = One
        /\ \A key \in OperatorKeys \ {"source"} :
                RMul(operators_config[key],
                     RSumOver(config_file, OperatorKeys \ {"source"}))
                    = config_file[key]
        /\ OperatorsBuilt =>
                \A key \in DOMAIN operators : ~SourceDependent(operators[key])

\* C7 witness: the config file gave 'source' a weight, the source is not
\* sampled, and the table was built.
C7_WitnessSourceDisabled ==
    /\ OperatorsBuilt
    /\ ~sample_source
    /\ config_file["source"] # Zero

ActsOnClusters(op) ==
    op.class \in {"AlterCluster", "AlterClusterGibbsish", "AlterClusterEffect",
                  "GibbsSampleClusterEffect"}

\* C8: with n_clusters = 0 every operator of the table that acts on the
\* clusters or on the cluster effect has weight 0.
C8_NoClusterOperators ==
    (n_clusters = 0 /\ OperatorsBuilt) =>
        \A key \in DOMAIN operators :
            ActsOnClusters(operators[key]) => operators[key].weight = Zero

(***************************************************************************)
(* Claims about the config dictionaries and load_config.                   *)
(***************************************************************************)
LoadDone == pc \in {"load_returned", "load_raised"}

\* the key paths of the '<REQUIRED>' fields of the config that was verified
RequiredPaths ==
    {Append(item[3], item[1]) : item \in RequiredLeft(heap_before, config)}

\* the required priors the config that was verified does not have
MissingPriors ==
    IF /\ HasKey(heap_before, config, "model")
       /\ HasKey(heap_before, heap_before[config]["model"].ref, "prior")
    THEN LET prior == heap_before[heap_before[config]["model"].ref]["prior"].ref
         IN  {<<required_priors[i]>> : i \in {j \in 1 .. Len(required_priors) :
                    ~HasKey(heap_before, prior, required_priors[j])}}
    ELSE {}

MissingMcmc ==
    IF HasKey(heap_before, config, "mcmc") THEN {} ELSE {<<"mcmc">>}

\* C13: load_config does not return for a config that, with the defaults and
\* the custom settings applied, still has a '<REQUIRED>' field at any depth,
\* lacks a required prior or lacks the 'mcmc' section; it raises NameError,
\* and when the '<REQUIRED>' fields are the only such defect the NameError
\* names one of them.
C13_ConfigErrorsFatal ==
    (LoadDone /\ RequiredPaths \cup MissingPriors \cup MissingMcmc # {}) =>
        /\ pc = "load_raised"
        /\ exception[1] = "NameError"
        /\ (MissingPriors \cup MissingMcmc = {}) => exception[2] \in RequiredPaths

(***************************************************************************)
(* Claims about the warmup.                                                *)
(***************************************************************************)
\* C14: after ClusterMCMCWarmup.__init__ every chain has a max_size of its
\* own, each between initial_size and 1.5 times the nominal max_size, and the
\* proposal of chain c is rejected when the proposed size exceeds max_size[c]
\* and is not rejected for its size when it does not.
C14_WarmupMaxSize ==
    (IS_WARMUP /\ pc = "running") =>
        /\ Len(max_size) = n_chains
        /\ \A j \in 1 .. n_chains :
                /\ initial_size <= max_size[j]
                /\ 2 * max_size[j] <= 3 * model_max_size
        /\ proposal.called =>
                /\ (proposal.new_cluster_size > max_size[chain + 1])
                        => proposal.returned_input
                /\ ~proposal.returned_input =>
                        proposal.new_cluster_size <= max_size[chain + 1]

(***************************************************************************)
(* Claims about set_defaults and update_recursive.  A key path is the      *)
(* sequence of keys that leads from a dictionary to one of its values.     *)
(***************************************************************************)
RECURSIVE Paths(_, _)
\* the key paths of the dictionary d
Paths(h, d) ==
    UNION {{<<key>>} \cup
           (IF h[d][key].is_dict
            THEN {<<key>> \o path : path \in Paths(h, h[d][key].ref)}
            ELSE {})
           : key \in DOMAIN h[d]}

RECURSIVE Lookup(_, _, _)
\* the value of the dictionary d at a key path of it
Lookup(h, d, path) ==
    IF Len(path) = 1 THEN h[d][path[1]]
    ELSE Lookup(h, h[d][path[1]].ref, Tail(path))

LeafPaths(h, d) == {path \in Paths(h, d) : ~Lookup(h, d, path).is_dict}

RECURSIVE SameValue(_, _, _, _)
\* value v of heap g and value w of heap h are equal as Python values
SameValue(g, v, h, w) ==
    IF v.is_dict /\ w.is_dict
    THEN /\ DOMAIN g[v.ref] = DOMAIN h[w.ref]
         /\ \A key \in DOMAIN g[v.ref] :
                SameValue(g, g[v.ref][key], h, h[w.ref][key])
    ELSE v = w

\* the path without its last key
Parent(path) == SubSeq(path, 1, Len(path) - 1)

\* the key paths of default_cfg whose key was missing in cfg: the dictionary
\* that holds the key has a counterpart in cfg, a dictionary in both
MissingIn(h, cfg, default_cfg) ==
    {path \in Paths(h, default_cfg) \ Paths(h, cfg) :
        Len(path) > 1 =>
            /\ Parent(path) \in Paths(h, cfg)
            /\ Lookup(h, cfg, Parent(path)).is_dict}

\* C15: set_defaults(cfg, default_cfg) only fills gaps: every key path of cfg
\* keeps the value it had before the call (a leaf stays that leaf, also where
\* default_cfg has a dictionary; a dictionary stays that dictionary), every
\* key of default_cfg that was missing in cfg at any nesting level is in cfg
\* afterwards with the value of default_cfg, and a second call with the same
\* default_cfg changes nothing.
SetDefaultsFillsGaps ==
    pc \in {"defaults_set", "defaults_set_again"} =>
        /\ \A path \in Paths(heap_before, config) :
                /\ path \in Paths(heap, config)
                /\ Lookup(heap, config, path) = Lookup(heap_before, config, path)
        /\ \A path \in MissingIn(heap_before, config, OtherConfig) :
                /\ path \in Paths(heap, config)
                /\ SameValue(heap, Lookup(heap, config, path),
                             heap_before, Lookup(heap_before, OtherConfig, path))

C15_SetDefaultsFillsGaps ==
    /\ []SetDefaultsFillsGaps
    /\ [][pc' = "defaults_set_again" => heap' = heap]_vars

\* the call was repeated on a cfg with a leaf where default_cfg has a
\* dictionary and with a nested dictionary that lacked a key of default_cfg
C15_WitnessLeafKeptGapFilled ==
    /\ pc = "defaults_set_again"
    /\ \E path \in LeafPaths(heap_before, config) :
            /\ path \in Paths(heap_before, OtherConfig)
            /\ Lookup(heap_before, OtherConfig, path).is_dict
    /\ \E path \in MissingIn(heap_before, config, OtherConfig) : Len(path) > 1

\* new_cfg specifies a key path of cfg: the path is one of new_cfg, or new_cfg
\* has a leaf at a key on the way to it
SpecifiedBy(h, new_cfg, path) ==
    \E n \in 1 .. Len(path) :
        /\ SubSeq(path, 1, n) \in Paths(h, new_cfg)
        /\ n = Len(path) \/ ~Lookup(h, new_cfg, SubSeq(path, 1, n)).is_dict

\* the key paths at which cfg has a leaf and new_cfg a dictionary
LeafUnderDict(h, cfg, new_cfg) ==
    {path \in LeafPaths(h, cfg) \cap Paths(h, new_cfg) :
        Lookup(h, new_cfg, path).is_dict}

UpdateRecursiveWins ==
    pc \in {"updated", "updated_again"} =>
        /\ \A path \in LeafPaths(heap_before, OtherConfig) :
                /\ path \in Paths(heap, config)
                /\ Lookup(heap, config, path) = Lookup(heap_before, OtherConfig, path)
        /\ \A path \in LeafUnderDict(heap_before, config, OtherConfig) :
                SameValue(heap, Lookup(heap, config, path),
                          heap_before, Lookup(heap_before, OtherConfig, path))
        /\ \A path \in Paths(heap_before, config) :
                ~SpecifiedBy(heap_before, OtherConfig, path) =>
                    /\ path \in Paths(heap, config)
                    /\ Lookup(heap, config, path) = Lookup(heap_before, config, path)

\* C16: update_recursive(cfg, new_cfg) makes new_cfg win on every field it
\* specifies and touches nothing else: afterwards every leaf of new_cfg is in
\* cfg at the same key path with the value of new_cfg, a leaf of cfg where
\* new_cfg has a dictionary is replaced by that whole dictionary, every key
\* path of cfg that new_cfg does not specify (it is no key path of new_cfg and
\* lies below no leaf of new_cfg) keeps its value, and a second call with the
\* same new_cfg changes nothing.
C16_UpdateRecursiveWins ==
    /\ []UpdateRecursiveWins
    /\ [][pc' = "updated_again" => heap' = heap]_vars

\* the call was repeated on a cfg with a leaf where new_cfg has a dictionary,
\* with a leaf that new_cfg changes and with a nested key that new_cfg does
\* not specify
C16_WitnessReplacedAndKept ==
    /\ pc = "updated_again"
    /\ LeafUnderDict(heap_before, config, OtherConfig) # {}
    /\ \E path \in LeafPaths(heap_before, OtherConfig) \cap LeafPaths(heap_before, config) :
            Lookup(heap_before, config, path) # Lookup(heap_before, OtherConfig, path)
    /\ \E path \in Paths(heap_before, config) :
            /\ Len(path) > 1
            /\ ~SpecifiedBy(heap_before, OtherConfig, path)

(***************************************************************************)
(* Claims about the candidates of gibbsish_sample_clusters.                *)
(***************************************************************************)
\* the sample the call was made on
SampleBefore ==
    [j \in 1 .. Len(sample) |->
        IF j = proposal.i_cluster THEN proposal.cluster ELSE sample[j]]

OccupiedBefore == UnionOfRows(SampleBefore)

\* "available = (~occupied) | cluster", before the cap
AvailableBefore == (Sites \ OccupiedBefore) \cup proposal.cluster

\* C17: in gibbsish_sample_clusters, whenever the number of available sites
\* (the unoccupied sites and the sites of the chosen cluster) exceeds max_size,
\* the candidates after the cap hold every site of the chosen cluster and at
\* most 10 sites that belong to no cluster; a site that is no candidate is in
\* the proposed cluster exactly if it was in the chosen cluster.
C17_CandidateCap ==
    (pc = "running" /\ proposal.called) =>
        /\ Cardinality(AvailableBefore) > ChainMaxSize =>
            /\ proposal.cluster \subseteq proposal.available
            /\ Cardinality(proposal.available \ OccupiedBefore) <= MaxCandidates
        /\ \A s \in Sites \ proposal.available :
                s \in proposal.new_cluster <=> s \in proposal.cluster

\* more than 10 sites were unoccupied, the available sites exceeded max_size,
\* the chosen cluster had a site and the proposal, with a site that was
\* unoccupied, was returned
C17_WitnessSubsampled ==
    /\ pc = "running"
    /\ proposal.called
    /\ Cardinality(Sites \ OccupiedBefore) > MaxCandidates
    /\ Cardinality(AvailableBefore) > ChainMaxSize
    /\ proposal.cluster # {}
    /\ Cardinality(proposal.available \ OccupiedBefore) = MaxCandidates
    /\ ~proposal.returned_input
    /\ proposal.new_cluster \ OccupiedBefore # {}

(***************************************************************************)
(* Claim about the occupied sites of generate_initial_clusters.            *)
(***************************************************************************)
\* C18: a failed growth attempt has no effect on the occupied sites:
\* throughout generate_initial_clusters, across any number of ClusterError
\* retries, the sites marked occupied are exactly the sites of the resumed
\* clusters and of the clusters placed so far.
C18_FailedGrowthLeavesOccupied ==
    pc \in {"init_for", "init_while", "ValueError"} =>
        occupied = UnionOfRows(initial_clusters)

(***************************************************************************)
(* Claim about the module-level DEFAULT_CONFIG.                            *)
(***************************************************************************)
\* C19: loading a config never changes DEFAULT_CONFIG: after any sequence of
\* load_config calls, DEFAULT_CONFIG and all its nested dictionaries hold the
\* values of default_config.json.
C19_DefaultConfigUnchanged ==
    (DEFAULT_CONFIG \in DOMAIN heap) =>
        SameValue(heap, DictValue(DEFAULT_CONFIG), heap, DictValue(DefaultText))

(***************************************************************************)
(* Claim about the divisions of verify_config and get_operators.           *)
(***************************************************************************)
\* C20: building and normalizing the operator table never fails with a
\* division by zero: verify_config completes when the operator weights sum to
\* 0 after the source weight has been forced to 0, and get_operators completes
\* for a model without confounders, with source sampling on and off.
C20_NoDivisionByZero == pc # "ZeroDivisionError"

(***************************************************************************)
(* Claim about the disjointness of the clusters.                           *)
(***************************************************************************)
PairwiseDisjoint(clusters) ==
    \A a, b \in 1 .. Len(clusters) :
        a # b => clusters[a] \cap clusters[b] = {}

\* the rows in which two samples differ
ChangedRows(old, new) == {j \in 1 .. Len(old) : new[j] # old[j]}

FromScratch == initial_sample.is_none

DisjointFromScratch ==
    /\ (pc = "init_returned" /\ FromScratch) => PairwiseDisjoint(initial_clusters)
    /\ (pc = "running" /\ FromScratch) => PairwiseDisjoint(sample)

\* C21: clusters never share a site: the clusters generate_initial_clusters
\* produces from scratch are pairwise disjoint; a call of
\* gibbsish_sample_clusters on a sample of pairwise disjoint clusters returns
\* a sample of pairwise disjoint clusters of the same number, in which at most
\* one row differs from the input; hence the clusters of a chain started from
\* scratch are pairwise disjoint after any sequence of proposals.
C21_ClustersDisjoint ==
    /\ []DisjointFromScratch
    /\ [][(pc = "running" /\ pc' = "running" /\ PairwiseDisjoint(sample)) =>
            /\ PairwiseDisjoint(sample')
            /\ Len(sample') = Len(sample)
            /\ Cardinality(ChangedRows(sample, sample')) <= 1]_vars

\* two clusters grown from scratch, one of them changed by a proposal that
\* took a site in and let a site go
C21_WitnessProposed ==
    /\ pc = "running"
    /\ FromScratch
    /\ Len(sample) = 2
    /\ proposal.called
    /\ ~proposal.returned_input
    /\ \E j \in ChangedRows(initial_clusters, sample) :
            /\ sample[j] \ initial_clusters[j] # {}
            /\ initial_clusters[j] \ sample[j] # {}
    /\ \E j \in 1 .. 2 : sample[j] = initial_clusters[j] /\ sample[j] # {}

====
